---------------------------- MODULE Spec2Model ----------------------------
(***************************************************************************)
(* A model of the kvstore package: the record codec (entry.go), the        *)
(* write-ahead log (wal.go), the snapshot codec (snapshot.go) and the      *)
(* Store (store.go).                                                        *)
(*                                                                         *)
(* Files are sequences of bytes (0..255) laid out exactly as the code      *)
(* writes them, big-endian.  A uint32 is kept as its four bytes, because   *)
(* the checker's integers are 32-bit signed.                               *)
(***************************************************************************)
EXTENDS Integers, Sequences, FiniteSets, TLC

(***************************************************************************)
(* Bounds of the model.                                                    *)
(***************************************************************************)
\* calls of Set / Delete / Close over the whole run
MaxOps == 3
\* calls of Set / Delete / Close in the runs that flip a bit of the WAL
MaxOpsCorrupt == 2
\* process terminations without Close over the whole run
MaxCrashes == 2
\* injected I/O errors (write, fsync) over the whole run
MaxFaults == 1
\* bytes of a buffer that reach the file when its write is cut short (by an
\* I/O error, or by the machine stopping)
MaxTorn == 4
\* snapshot files written into the data directory over the whole run
MaxSnapshots == 1
\* how many step-by-step writeSnapshot calls a run makes
MaxWrites == 2
\* how many records are encoded into one buffer
MaxRecords == 2
\* Set / Delete / Close calls over a run in which goroutines also read
MaxCalls == 2

(***************************************************************************)
(* Bytes, and the 32-bit arithmetic of hash/crc32 on four-byte words.      *)
(***************************************************************************)
Bit(x, i) == (x \div (2 ^ i)) % 2

\* bitwise exclusive or of two 4-bit numbers a and b: XorNib[a + 1][b + 1]
XorNib == <<
    <<0, 1, 2, 3, 4, 5, 6, 7, 8, 9, 10, 11, 12, 13, 14, 15>>,
    <<1, 0, 3, 2, 5, 4, 7, 6, 9, 8, 11, 10, 13, 12, 15, 14>>,
    <<2, 3, 0, 1, 6, 7, 4, 5, 10, 11, 8, 9, 14, 15, 12, 13>>,
    <<3, 2, 1, 0, 7, 6, 5, 4, 11, 10, 9, 8, 15, 14, 13, 12>>,
    <<4, 5, 6, 7, 0, 1, 2, 3, 12, 13, 14, 15, 8, 9, 10, 11>>,
    <<5, 4, 7, 6, 1, 0, 3, 2, 13, 12, 15, 14, 9, 8, 11, 10>>,
    <<6, 7, 4, 5, 2, 3, 0, 1, 14, 15, 12, 13, 10, 11, 8, 9>>,
    <<7, 6, 5, 4, 3, 2, 1, 0, 15, 14, 13, 12, 11, 10, 9, 8>>,
    <<8, 9, 10, 11, 12, 13, 14, 15, 0, 1, 2, 3, 4, 5, 6, 7>>,
    <<9, 8, 11, 10, 13, 12, 15, 14, 1, 0, 3, 2, 5, 4, 7, 6>>,
    <<10, 11, 8, 9, 14, 15, 12, 13, 2, 3, 0, 1, 6, 7, 4, 5>>,
    <<11, 10, 9, 8, 15, 14, 13, 12, 3, 2, 1, 0, 7, 6, 5, 4>>,
    <<12, 13, 14, 15, 8, 9, 10, 11, 4, 5, 6, 7, 0, 1, 2, 3>>,
    <<13, 12, 15, 14, 9, 8, 11, 10, 5, 4, 7, 6, 1, 0, 3, 2>>,
    <<14, 15, 12, 13, 10, 11, 8, 9, 6, 7, 4, 5, 2, 3, 0, 1>>,
    <<15, 14, 13, 12, 11, 10, 9, 8, 7, 6, 5, 4, 3, 2, 1, 0>>>>

\* bitwise exclusive or of two bytes
Xor8(a, b) ==
    16 * XorNib[(a \div 16) + 1][(b \div 16) + 1] + XorNib[(a % 16) + 1][(b % 16) + 1]

\* crc32.IEEETable, made from the reversed polynomial 0xEDB88320: entry i is
\* IEEETable[i + 1], as a big-endian 32-bit word
IEEETable == <<
    <<0, 0, 0, 0>>, <<119, 7, 48, 150>>, <<238, 14, 97, 44>>, <<153, 9, 81, 186>>,
    <<7, 109, 196, 25>>, <<112, 106, 244, 143>>, <<233, 99, 165, 53>>, <<158, 100, 149, 163>>,
    <<14, 219, 136, 50>>, <<121, 220, 184, 164>>, <<224, 213, 233, 30>>, <<151, 210, 217, 136>>,
    <<9, 182, 76, 43>>, <<126, 177, 124, 189>>, <<231, 184, 45, 7>>, <<144, 191, 29, 145>>,
    <<29, 183, 16, 100>>, <<106, 176, 32, 242>>, <<243, 185, 113, 72>>, <<132, 190, 65, 222>>,
    <<26, 218, 212, 125>>, <<109, 221, 228, 235>>, <<244, 212, 181, 81>>, <<131, 211, 133, 199>>,
    <<19, 108, 152, 86>>, <<100, 107, 168, 192>>, <<253, 98, 249, 122>>, <<138, 101, 201, 236>>,
    <<20, 1, 92, 79>>, <<99, 6, 108, 217>>, <<250, 15, 61, 99>>, <<141, 8, 13, 245>>,
    <<59, 110, 32, 200>>, <<76, 105, 16, 94>>, <<213, 96, 65, 228>>, <<162, 103, 113, 114>>,
    <<60, 3, 228, 209>>, <<75, 4, 212, 71>>, <<210, 13, 133, 253>>, <<165, 10, 181, 107>>,
    <<53, 181, 168, 250>>, <<66, 178, 152, 108>>, <<219, 187, 201, 214>>, <<172, 188, 249, 64>>,
    <<50, 216, 108, 227>>, <<69, 223, 92, 117>>, <<220, 214, 13, 207>>, <<171, 209, 61, 89>>,
    <<38, 217, 48, 172>>, <<81, 222, 0, 58>>, <<200, 215, 81, 128>>, <<191, 208, 97, 22>>,
    <<33, 180, 244, 181>>, <<86, 179, 196, 35>>, <<207, 186, 149, 153>>, <<184, 189, 165, 15>>,
    <<40, 2, 184, 158>>, <<95, 5, 136, 8>>, <<198, 12, 217, 178>>, <<177, 11, 233, 36>>,
    <<47, 111, 124, 135>>, <<88, 104, 76, 17>>, <<193, 97, 29, 171>>, <<182, 102, 45, 61>>,
    <<118, 220, 65, 144>>, <<1, 219, 113, 6>>, <<152, 210, 32, 188>>, <<239, 213, 16, 42>>,
    <<113, 177, 133, 137>>, <<6, 182, 181, 31>>, <<159, 191, 228, 165>>, <<232, 184, 212, 51>>,
    <<120, 7, 201, 162>>, <<15, 0, 249, 52>>, <<150, 9, 168, 142>>, <<225, 14, 152, 24>>,
    <<127, 106, 13, 187>>, <<8, 109, 61, 45>>, <<145, 100, 108, 151>>, <<230, 99, 92, 1>>,
    <<107, 107, 81, 244>>, <<28, 108, 97, 98>>, <<133, 101, 48, 216>>, <<242, 98, 0, 78>>,
    <<108, 6, 149, 237>>, <<27, 1, 165, 123>>, <<130, 8, 244, 193>>, <<245, 15, 196, 87>>,
    <<101, 176, 217, 198>>, <<18, 183, 233, 80>>, <<139, 190, 184, 234>>, <<252, 185, 136, 124>>,
    <<98, 221, 29, 223>>, <<21, 218, 45, 73>>, <<140, 211, 124, 243>>, <<251, 212, 76, 101>>,
    <<77, 178, 97, 88>>, <<58, 181, 81, 206>>, <<163, 188, 0, 116>>, <<212, 187, 48, 226>>,
    <<74, 223, 165, 65>>, <<61, 216, 149, 215>>, <<164, 209, 196, 109>>, <<211, 214, 244, 251>>,
    <<67, 105, 233, 106>>, <<52, 110, 217, 252>>, <<173, 103, 136, 70>>, <<218, 96, 184, 208>>,
    <<68, 4, 45, 115>>, <<51, 3, 29, 229>>, <<170, 10, 76, 95>>, <<221, 13, 124, 201>>,
    <<80, 5, 113, 60>>, <<39, 2, 65, 170>>, <<190, 11, 16, 16>>, <<201, 12, 32, 134>>,
    <<87, 104, 181, 37>>, <<32, 111, 133, 179>>, <<185, 102, 212, 9>>, <<206, 97, 228, 159>>,
    <<94, 222, 249, 14>>, <<41, 217, 201, 152>>, <<176, 208, 152, 34>>, <<199, 215, 168, 180>>,
    <<89, 179, 61, 23>>, <<46, 180, 13, 129>>, <<183, 189, 92, 59>>, <<192, 186, 108, 173>>,
    <<237, 184, 131, 32>>, <<154, 191, 179, 182>>, <<3, 182, 226, 12>>, <<116, 177, 210, 154>>,
    <<234, 213, 71, 57>>, <<157, 210, 119, 175>>, <<4, 219, 38, 21>>, <<115, 220, 22, 131>>,
    <<227, 99, 11, 18>>, <<148, 100, 59, 132>>, <<13, 109, 106, 62>>, <<122, 106, 90, 168>>,
    <<228, 14, 207, 11>>, <<147, 9, 255, 157>>, <<10, 0, 174, 39>>, <<125, 7, 158, 177>>,
    <<240, 15, 147, 68>>, <<135, 8, 163, 210>>, <<30, 1, 242, 104>>, <<105, 6, 194, 254>>,
    <<247, 98, 87, 93>>, <<128, 101, 103, 203>>, <<25, 108, 54, 113>>, <<110, 107, 6, 231>>,
    <<254, 212, 27, 118>>, <<137, 211, 43, 224>>, <<16, 218, 122, 90>>, <<103, 221, 74, 204>>,
    <<249, 185, 223, 111>>, <<142, 190, 239, 249>>, <<23, 183, 190, 67>>, <<96, 176, 142, 213>>,
    <<214, 214, 163, 232>>, <<161, 209, 147, 126>>, <<56, 216, 194, 196>>, <<79, 223, 242, 82>>,
    <<209, 187, 103, 241>>, <<166, 188, 87, 103>>, <<63, 181, 6, 221>>, <<72, 178, 54, 75>>,
    <<216, 13, 43, 218>>, <<175, 10, 27, 76>>, <<54, 3, 74, 246>>, <<65, 4, 122, 96>>,
    <<223, 96, 239, 195>>, <<168, 103, 223, 85>>, <<49, 110, 142, 239>>, <<70, 105, 190, 121>>,
    <<203, 97, 179, 140>>, <<188, 102, 131, 26>>, <<37, 111, 210, 160>>, <<82, 104, 226, 54>>,
    <<204, 12, 119, 149>>, <<187, 11, 71, 3>>, <<34, 2, 22, 185>>, <<85, 5, 38, 47>>,
    <<197, 186, 59, 190>>, <<178, 189, 11, 40>>, <<43, 180, 90, 146>>, <<92, 179, 106, 4>>,
    <<194, 215, 255, 167>>, <<181, 208, 207, 49>>, <<44, 217, 158, 139>>, <<91, 222, 174, 29>>,
    <<155, 100, 194, 176>>, <<236, 99, 242, 38>>, <<117, 106, 163, 156>>, <<2, 109, 147, 10>>,
    <<156, 9, 6, 169>>, <<235, 14, 54, 63>>, <<114, 7, 103, 133>>, <<5, 0, 87, 19>>,
    <<149, 191, 74, 130>>, <<226, 184, 122, 20>>, <<123, 177, 43, 174>>, <<12, 182, 27, 56>>,
    <<146, 210, 142, 155>>, <<229, 213, 190, 13>>, <<124, 220, 239, 183>>, <<11, 219, 223, 33>>,
    <<134, 211, 210, 212>>, <<241, 212, 226, 66>>, <<104, 221, 179, 248>>, <<31, 218, 131, 110>>,
    <<129, 190, 22, 205>>, <<246, 185, 38, 91>>, <<111, 176, 119, 225>>, <<24, 183, 71, 119>>,
    <<136, 8, 90, 230>>, <<255, 15, 106, 112>>, <<102, 6, 59, 202>>, <<17, 1, 11, 92>>,
    <<143, 101, 158, 255>>, <<248, 98, 174, 105>>, <<97, 107, 255, 211>>, <<22, 108, 207, 69>>,
    <<160, 10, 226, 120>>, <<215, 13, 210, 238>>, <<78, 4, 131, 84>>, <<57, 3, 179, 194>>,
    <<167, 103, 38, 97>>, <<208, 96, 22, 247>>, <<73, 105, 71, 77>>, <<62, 110, 119, 219>>,
    <<174, 209, 106, 74>>, <<217, 214, 90, 220>>, <<64, 223, 11, 102>>, <<55, 216, 59, 240>>,
    <<169, 188, 174, 83>>, <<222, 187, 158, 197>>, <<71, 178, 207, 127>>, <<48, 181, 255, 233>>,
    <<189, 189, 242, 28>>, <<202, 186, 194, 138>>, <<83, 179, 147, 48>>, <<36, 180, 163, 166>>,
    <<186, 208, 54, 5>>, <<205, 215, 6, 147>>, <<84, 222, 87, 41>>, <<35, 217, 103, 191>>,
    <<179, 102, 122, 46>>, <<196, 97, 74, 184>>, <<93, 104, 27, 2>>, <<42, 111, 43, 148>>,
    <<180, 11, 190, 55>>, <<195, 12, 142, 161>>, <<90, 5, 223, 27>>, <<45, 2, 239, 141>>>>

\* one byte of the table-driven update: tab[byte(crc) ^ b] ^ (crc >> 8)
CrcUpdate(crc, b) ==
    LET t == IEEETable[Xor8(crc[4], b) + 1]
    IN  <<t[1], Xor8(t[2], crc[1]), Xor8(t[3], crc[2]), Xor8(t[4], crc[3])>>

\* the update over bytes[lo..hi] in order, by halves: the left half is
\* computed before the right half starts from its result
RECURSIVE CrcRange(_, _, _, _)
CrcRange(crc, bytes, lo, hi) ==
    IF lo > hi THEN crc
    ELSE IF lo = hi THEN CrcUpdate(crc, bytes[lo])
    ELSE LET mid == (lo + hi) \div 2
         IN  CHOOSE right \in {CrcRange(left, bytes, mid + 1, hi) :
                                  left \in {CrcRange(crc, bytes, lo, mid)}} : TRUE

\* crc32.ChecksumIEEE(bytes), as the four bytes binary.BigEndian writes
ChecksumIEEE(bytes) ==
    CHOOSE sum \in {<<255 - c[1], 255 - c[2], 255 - c[3], 255 - c[4]>> :
                      c \in {CrcRange(<<255, 255, 255, 255>>, b, 1, Len(b)) : b \in {bytes}}} : TRUE

\* binary.Write(w, binary.BigEndian, uint32(n)), for n < 2^31
BE32(n) == <<(n \div 16777216) % 256, (n \div 65536) % 256, (n \div 256) % 256, n % 256>>

\* binary.Write(w, binary.BigEndian, int64(n)), for 0 <= n < 2^31
BE64(n) == <<0, 0, 0, 0>> \o BE32(n)


(***************************************************************************)
(* entry.go: the WAL record and its codec.                                 *)
(***************************************************************************)
OpSet == 1
OpDelete == 2

\* EntryMagic 0x4B564C47 ("KVLG"), as binary.BigEndian writes it
EntryMagic == <<75, 86, 76, 71>>

\* NewSetEntry(key, value) at clock reading ts
NewSetEntry(key, value, ts) ==
    [Operation |-> OpSet, Timestamp |-> ts, Key |-> key, Value |-> value]

\* NewDeleteEntry(key) at clock reading ts; the nil value has length 0
NewDeleteEntry(key, ts) ==
    [Operation |-> OpDelete, Timestamp |-> ts, Key |-> key, Value |-> <<>>]

\* the bytes Entry.Encode checksums: magic, op, timestamp, key length, key,
\* value length, value
EncodeData(e) ==
    EntryMagic \o <<e.Operation>> \o BE64(e.Timestamp)
        \o BE32(Len(e.Key)) \o e.Key \o BE32(Len(e.Value)) \o e.Value

\* Entry.Encode into a bytes.Buffer: the data, then its CRC-32
EncodeNoChecksum(e) == EncodeData(e)
Encode(e) == EncodeData(e) \o ChecksumIEEE(EncodeData(e))

\* the bytes of file from offset pos (0-based), n of them
Bytes(file, pos, n) == SubSeq(file, pos + 1, pos + n)

\* binary.Read of a uint32 below 2^31
U32(b) == b[1] * 16777216 + b[2] * 65536 + b[3] * 256 + b[4]

\* io.ReadFull of a length given as a big-endian uint32: it succeeds iff that
\* many bytes are left after offset pos.  A length of 2^31 or more exceeds
\* every file of the model.
FitsU32(b, file, pos) == b[1] < 128 /\ pos + U32(b) <= Len(file)

\* binary.Read of an int64; a value outside 0 .. 2^31-1 is kept as its bytes
I64(b) ==
    IF b[1] = 0 /\ b[2] = 0 /\ b[3] = 0 /\ b[4] = 0 /\ b[5] < 128
    THEN U32(<<b[5], b[6], b[7], b[8]>>)
    ELSE b

\* the errors of DecodeEntry, by the text Replay looks for in them
ErrRead == "failed to read"
ErrMagic == "invalid magic"
ErrChecksum == "checksum mismatch"
NoErr == "nil"

NoEntry == [Operation |-> 0, Timestamp |-> 0, Key |-> <<>>, Value |-> <<>>]

DecodeFail(err) == [err |-> err, entry |-> NoEntry, next |-> 0]

\* DecodeEntry(r), r positioned at offset pos of file: the error (NoErr for
\* none), the entry, and the offset after the record
DecodeEntry(file, pos) ==
    IF pos + 4 > Len(file) THEN DecodeFail(ErrRead)
    ELSE IF Bytes(file, pos, 4) # EntryMagic THEN DecodeFail(ErrMagic)
    ELSE IF pos + 5 > Len(file) THEN DecodeFail(ErrRead)
    ELSE IF pos + 13 > Len(file) THEN DecodeFail(ErrRead)
    ELSE IF pos + 17 > Len(file) THEN DecodeFail(ErrRead)
    ELSE LET kb == Bytes(file, pos + 13, 4) IN
         IF ~FitsU32(kb, file, pos + 17) THEN DecodeFail(ErrRead)
         ELSE LET keyLen == U32(kb)
                  vpos == pos + 17 + keyLen
              IN
              IF vpos + 4 > Len(file) THEN DecodeFail(ErrRead)
              ELSE LET vb == Bytes(file, vpos, 4) IN
                   IF ~FitsU32(vb, file, vpos + 4) THEN DecodeFail(ErrRead)
                   ELSE LET valueLen == U32(vb)
                            cpos == vpos + 4 + valueLen
                        IN
                        IF cpos + 4 > Len(file) THEN DecodeFail(ErrRead)
                        ELSE IF ChecksumIEEE(Bytes(file, pos, cpos - pos))
                                    # Bytes(file, cpos, 4)
                             THEN DecodeFail(ErrChecksum)
                             ELSE [err |-> NoErr,
                                   entry |->
                                     [Operation |-> file[pos + 5],
                                      Timestamp |-> I64(Bytes(file, pos + 5, 8)),
                                      Key |-> Bytes(file, pos + 17, keyLen),
                                      Value |-> Bytes(file, vpos + 4, valueLen)],
                                   next |-> cpos + 4]


(***************************************************************************)
(* The in-memory map, map[string][]byte: a function from the keys present  *)
(* to their values.                                                        *)
(***************************************************************************)
EmptyMap == [k \in {} |-> <<>>]

MapPutNothing(m, key, value) == m
MapPutAlone(m, key, value) == [k \in {key} |-> value]
MapPut(m, key, value) ==
    [k \in DOMAIN m \cup {key} |-> IF k = key THEN value ELSE m[k]]

MapDeleteNothing(m, key) == m
MapDelete(m, key) == [k \in DOMAIN m \ {key} |-> m[k]]

(***************************************************************************)
(* wal.go: Replay.                                                         *)
(***************************************************************************)
\* the errors after which Replay breaks out of its loop and returns nil:
\* err == io.EOF never holds, DecodeEntry wraps every error it returns
StopsReplay(err) == err = ErrChecksum \/ err = ErrRead

\* the operations Replay hands to the callback
AnyOp(op) == TRUE
KnownOp(op) == op = OpSet \/ op = OpDelete

\* the loop of WAL.Replay from offset pos; acc is what the callback has been
\* given so far.  The callbacks of this package never return an error.
RECURSIVE ReplayFrom(_, _, _)
ReplayFrom(file, pos, acc) ==
    LET d == DecodeEntry(file, pos) IN
    IF d.err # NoErr
    THEN [err |-> ~StopsReplay(d.err), entries |-> acc]
    ELSE IF ~KnownOp(d.entry.Operation)
         THEN ReplayFrom(file, d.next, acc)
         ELSE ReplayFrom(file, d.next, Append(acc, d.entry))

\* WAL.Replay(callback) on an open file: whether it returns an error, and the
\* entries the callback was called with, in order
ReplayNoSeek(file) == ReplayFrom(file, Len(file), <<>>)
Replay(file) == ReplayFrom(file, 0, <<>>)

(***************************************************************************)
(* store.go: the recovery callback of OpenWithConfig.                      *)
(***************************************************************************)
\* what a record does to the map: a Set stores the value under the key, a
\* Delete removes the key and nothing else, any other record does nothing
ApplyEntryDeleteClears(m, e) ==
    IF e.Operation = OpSet THEN MapPut(m, e.Key, e.Value)
    ELSE IF e.Operation = OpDelete THEN EmptyMap
    ELSE m
ApplyEntry(m, e) ==
    IF e.Operation = OpSet THEN MapPut(m, e.Key, e.Value)
    ELSE IF e.Operation = OpDelete THEN MapDelete(m, e.Key)
    ELSE m

\* the callback is called for the records in file order and applies each of
\* them, whatever its timestamp
RECURSIVE ApplyAllNewestWins(_, _, _)
ApplyAllNewestWins(m, entries, i) ==
    IF i > Len(entries) THEN m
    ELSE IF \E j \in 1..(i - 1) : /\ entries[j].Key = entries[i].Key
                                  /\ entries[j].Timestamp > entries[i].Timestamp
         THEN ApplyAllNewestWins(m, entries, i + 1)
         ELSE ApplyAllNewestWins(ApplyEntry(m, entries[i]), entries, i + 1)

RECURSIVE ApplyAll(_, _, _)
ApplyAll(m, entries, i) ==
    IF i > Len(entries) THEN m ELSE ApplyAll(ApplyEntry(m, entries[i]), entries, i + 1)

(***************************************************************************)
(* snapshot.go: writeSnapshot and loadSnapshot.                            *)
(***************************************************************************)
\* SnapshotMagic 0x4B565350 ("KVSP")
SnapshotMagic == <<75, 86, 83, 80>>

SnapshotHeader(ts, count) == SnapshotMagic \o BE64(ts) \o BE32(count)

SnapshotEntryDataNoValue(key, value) == BE32(Len(key)) \o key \o BE32(0)
SnapshotEntryData(key, value) ==
    BE32(Len(key)) \o key \o BE32(Len(value)) \o value

RECURSIVE SnapshotEntries(_, _, _)
SnapshotEntries(m, order, i) ==
    IF i > Len(order) THEN <<>>
    ELSE SnapshotEntryData(order[i], m[order[i]])
             \o ChecksumIEEE(SnapshotEntryData(order[i], m[order[i]]))
             \o SnapshotEntries(m, order, i + 1)

\* the orders in which `for key, value := range data` may visit the map
RangeOrders(m) ==
    {o \in [1..Cardinality(DOMAIN m) -> DOMAIN m] :
        \A i, j \in DOMAIN o : i # j => o[i] # o[j]}

\* the file writeSnapshot renames into place, at clock reading ts and for the
\* iteration order `order`
SnapshotBytes(m, ts, order) ==
    SnapshotHeader(ts, Len(order))
        \o ChecksumIEEE(SnapshotHeader(ts, Len(order)))
        \o SnapshotEntries(m, order, 1)

\* snapshot.dat: absent, or its bytes
NoSnapshot == [exists |-> FALSE, bytes |-> <<>>]
SnapshotFile(bytes) == [exists |-> TRUE, bytes |-> bytes]

\* what loadSnapshot returns when snapshot.dat does not exist: an empty map
\* and nil
LoadedNothingAsError == [err |-> TRUE, data |-> EmptyMap]
LoadedNothing == [err |-> FALSE, data |-> EmptyMap]

LoadFailSilent == [err |-> FALSE, data |-> EmptyMap]
LoadFail == [err |-> TRUE, data |-> EmptyMap]

\* the entry loop of loadSnapshot: left entries still to read from offset pos
RECURSIVE LoadEntries(_, _, _, _)
LoadEntries(file, pos, left, acc) ==
    IF left = 0 THEN [err |-> FALSE, data |-> acc]
    ELSE IF pos + 4 > Len(file) THEN LoadFail
    ELSE LET kb == Bytes(file, pos, 4) IN
         IF ~FitsU32(kb, file, pos + 4) THEN LoadFail
         ELSE LET keyLen == U32(kb)
                  vpos == pos + 4 + keyLen
              IN
              IF vpos + 4 > Len(file) THEN LoadFail
              ELSE LET vb == Bytes(file, vpos, 4) IN
                   IF ~FitsU32(vb, file, vpos + 4) THEN LoadFail
                   ELSE LET valueLen == U32(vb)
                            cpos == vpos + 4 + valueLen
                        IN
                        IF cpos + 4 > Len(file) THEN LoadFail
                        ELSE IF ChecksumIEEE(Bytes(file, pos, cpos - pos))
                                    # Bytes(file, cpos, 4)
                             THEN LoadFail
                             ELSE LoadEntries(file, cpos + 4, left - 1,
                                      MapPut(acc, Bytes(file, pos + 4, keyLen),
                                                  Bytes(file, vpos + 4, valueLen)))

\* loadSnapshot(dataDir): the error (TRUE for non-nil) and the map.  A count
\* of 2^31 or more is more entries than any file of the model holds.
loadSnapshot(snap) ==
    IF ~snap.exists THEN LoadedNothing
    ELSE LET file == snap.bytes IN
         IF 4 > Len(file) THEN LoadFail
         ELSE IF Bytes(file, 0, 4) # SnapshotMagic THEN LoadFail
         ELSE IF 12 > Len(file) THEN LoadFail
         ELSE IF 16 > Len(file) THEN LoadFail
         ELSE IF 20 > Len(file) THEN LoadFail
         ELSE IF ChecksumIEEE(Bytes(file, 0, 16)) # Bytes(file, 16, 4) THEN LoadFail
         ELSE LET cb == Bytes(file, 12, 4) IN
              LoadEntries(file, 20, IF cb[1] < 128 THEN U32(cb) ELSE Len(file), EmptyMap)


(***************************************************************************)
(* The running program: one data directory (wal.log, snapshot.dat), at     *)
(* most one Store open on it, and the goroutines that call the Store.      *)
(***************************************************************************)
\* the goroutines that call the Store
Threads == {1, 2}

\* the keys and values the callers pass ("a", "b"; "x", "y")
Keys == {<<97>>, <<98>>}
Values == {<<120>>, <<121>>}

\* the maps from some of Keys to Values
Maps == UNION {[D -> Values] : D \in SUBSET Keys}

\* the maps writeSnapshot is called with directly: empty values included
SnapMaps == UNION {[D -> Values \cup {<<>>}] : D \in SUBSET Keys}

VARIABLES
    wal,        \* wal.log as the operating system shows it: a sequence of bytes
    disk,       \* the content of wal.log that is known to be on stable storage
    starts,     \* the offsets at which the writes not yet known to be stable began
    snapshot,   \* snapshot.dat: NoSnapshot or SnapshotFile(bytes)
    fileOpen,   \* WAL.file is an open handle
    syncMode,   \* WAL.syncMode = Config.SyncWrites of the open Store
    up,         \* a Store returned by OpenWithConfig exists in the process
    data,       \* Store.data
    mu,         \* Store.mu: 0 when free, else the goroutine holding the write lock
    walMu,      \* WAL.mu: 0 when free, else the goroutine holding it
    pc,         \* where each goroutine is inside its call
    call,       \* the Entry each goroutine is appending
    ret,        \* what the call that returned last returned
    before,     \* Store.data as it was when the latest call started
    hist,       \* the Set / Delete / Append calls that returned nil, in order of return
    opened,     \* the outcome of OpenWithConfig or Replay, while nothing was called since
    down,       \* how the Store or WAL went down last: "fresh", "close", "crash",
                \* "closecrash", "dropped"
    unacked,    \* the keys of the calls whose record was written and that never returned nil
    everClosed, \* Close was called at some point of the run
    corrupt,    \* whether a bit of wal.log was flipped, and where its record starts
    nOps, nCrashes, nFaults, nSnaps,
    limit,      \* how many calls, crashes, I/O errors and snapshot files the run has
    tmp,        \* snapshot.dat.tmp: NoSnapshot or SnapshotFile(bytes)
    writer,     \* the writeSnapshot call in progress: its position, map and range order
    loaded,     \* what the latest loadSnapshot call returned
    damage,     \* what was done to snapshot.dat after it was written
    closedFrom, \* whether the latest Close began right after Open, and the map it began with
    codec,      \* a reader (a bytes.Buffer, or wal.log under the loop of Replay): its
                \* bytes, the entries encoded into it and decoded from it, its offset
    cut         \* whether WAL.Truncate was called directly, and how many calls of hist
                \* had returned when it was called last

vars == <<wal, disk, starts, snapshot, fileOpen, syncMode, up, data, mu, walMu, pc, call,
          ret, before, hist, unacked, opened, down, everClosed, corrupt,
          nOps, nCrashes, nFaults, nSnaps,
          limit, cut, tmp, writer, loaded, damage, closedFrom, codec>>

NoRet == [op |-> "none", err |-> FALSE]
NoOpen == [done |-> FALSE, err |-> FALSE, entries |-> <<>>]
NoCorruption == [on |-> FALSE, at |-> 0]
NoWriter == [pc |-> "idle", m |-> EmptyMap, order |-> <<>>, i |-> 0, prev |-> NoSnapshot]
NoLoad == [done |-> FALSE, err |-> FALSE, data |-> EmptyMap]
NoClose == [on |-> FALSE, data |-> EmptyMap]
NoDamage == [kind |-> "none", at |-> 0]
NoCut == [on |-> FALSE, at |-> 0]
EmptyBuffer == [buf |-> <<>>, written |-> <<>>, read |-> <<>>, pos |-> 0, err |-> NoErr]

InitWith(lim) ==
    /\ limit = lim
    /\ wal = <<>> /\ disk = <<>> /\ starts = {} /\ snapshot = NoSnapshot
    /\ fileOpen = FALSE /\ syncMode = TRUE /\ up = FALSE
    /\ data = EmptyMap /\ mu = 0 /\ walMu = 0
    /\ pc = [t \in Threads |-> "idle"]
    /\ call = [t \in Threads |-> NoEntry]
    /\ ret = NoRet /\ before = EmptyMap /\ hist = <<>> /\ unacked = {}
    /\ opened = NoOpen /\ down = "fresh" /\ everClosed = FALSE
    /\ corrupt = NoCorruption
    /\ nOps = 0 /\ nCrashes = 0 /\ nFaults = 0 /\ nSnaps = 0
    /\ tmp = NoSnapshot /\ writer = NoWriter /\ loaded = NoLoad /\ damage = NoDamage
    /\ closedFrom = NoClose /\ codec = EmptyBuffer /\ cut = NoCut

Idle == \A t \in Threads : pc[t] = "idle"

\* Store.Get(key) under the read lock
Get(key) == IF key \in DOMAIN data THEN <<data[key], TRUE>> ELSE <<<<>>, FALSE>>

\* Store.Len()
StoreLen == Cardinality(DOMAIN data)

\* wal.log after NewWAL opened it (O_RDWR | O_CREATE | O_APPEND, no O_TRUNC)
\* and Replay read it (Seek, DecodeEntry): the bytes it held
AfterReplayEmptied(file) == <<>>
AfterReplay(file) == file

\* OpenWithConfig(config): NewWAL opens wal.log, Replay feeds the callback; on a
\* replay error the WAL is closed (which syncs it) and no Store is returned
OpenWithConfig(sync) ==
    /\ ~fileOpen /\ Idle
    /\ wal' = AfterReplay(wal)
    /\ \E r \in {Replay(wal)} :
         /\ fileOpen' = ~r.err
         /\ up' = ~r.err
         /\ disk' = IF r.err THEN wal ELSE disk
         /\ starts' = IF r.err THEN {} ELSE starts
         /\ data' = IF r.err THEN EmptyMap ELSE ApplyAll(EmptyMap, r.entries, 1)
         /\ opened' = [done |-> TRUE, err |-> r.err, entries |-> r.entries]
    /\ syncMode' = sync
    /\ mu' = 0 /\ walMu' = 0 /\ ret' = NoRet
    /\ UNCHANGED <<snapshot, pc, call, before, hist, down, corrupt,
                   nOps, nCrashes, nFaults, nSnaps, limit, cut, tmp, writer, loaded, damage, closedFrom, codec, everClosed, unacked>>

\* the map Set / Delete leaves when Append returned an error: it returns
\* before it touches Store.data
AppendFailedMutateFirst(m, e) == ApplyEntry(m, e)
AppendFailed(m, e) == m

\* how many bytes of buf a file.Write may put into the file: all of them, or,
\* when it fails, at most MaxTorn and fewer than all
WriteCuts(buf) ==
    {Len(buf)} \cup (IF nFaults < limit.faults
                     THEN {n \in 0..MaxTorn : n < Len(buf)} ELSE {})

\* the start of Set / Delete up to file.Write inside WAL.Append: lock WAL.mu,
\* encode into the buffer, write the buffer.  The write fails on a closed file,
\* and may fail after part of the buffer was written; Append then unlocks and
\* returns the error, and so does Set / Delete.
AppendWrite(t, e, op) ==
    /\ up /\ pc[t] = "idle" /\ walMu = 0 /\ nOps < limit.ops
    /\ nOps' = nOps + 1
    /\ before' = data
    /\ opened' = NoOpen
    /\ \E buf \in {Encode(e)} :
       IF ~fileOpen
       THEN /\ ret' = [op |-> op, err |-> TRUE]
            /\ data' = AppendFailed(data, e)
            /\ UNCHANGED <<wal, starts, walMu, pc, call, nFaults>>
       ELSE \E n \in WriteCuts(buf) :
            /\ wal' = wal \o SubSeq(buf, 1, n)
            /\ starts' = starts \cup {Len(wal)}
            /\ IF n = Len(buf)
               THEN /\ walMu' = t
                    /\ pc' = [pc EXCEPT ![t] = "sync"]
                    /\ call' = [call EXCEPT ![t] = e]
                    /\ ret' = NoRet
                    /\ UNCHANGED <<data, nFaults>>
               ELSE /\ nFaults' = nFaults + 1
                    /\ ret' = [op |-> op, err |-> TRUE]
                    /\ data' = AppendFailed(data, e)
                    /\ UNCHANGED <<walMu, pc, call>>
    /\ UNCHANGED <<disk, snapshot, fileOpen, syncMode, up, mu, hist, down, corrupt,
                   nCrashes, nSnaps, limit, cut, tmp, writer, loaded, damage, closedFrom, codec, everClosed, unacked>>

\* Store.Set(key, value) up to the write of its record
Set(t, key, value) == AppendWrite(t, NewSetEntry(key, value, nOps), "Set")

\* Store.Delete(key) up to the write of its record
Delete(t, key) == AppendWrite(t, NewDeleteEntry(key, nOps), "Delete")

OpName(e) == IF e.Operation = OpSet THEN "Set" ELSE "Delete"

\* whether the file.Sync of this step may succeed, may fail
SyncOutcomes == {TRUE} \cup (IF nFaults < limit.faults THEN {FALSE} ELSE {})

\* the rest of WAL.Append: file.Sync if syncMode, unlock WAL.mu, return; on an
\* error Set / Delete returns it
AppendSyncHoldingLock(t) ==
    /\ pc[t] = "sync"
    /\ pc' = [pc EXCEPT ![t] = "store"]
    /\ UNCHANGED <<wal, disk, starts, snapshot, fileOpen, syncMode, up, data, mu, walMu, call,
                   ret, before, hist, opened, down, corrupt, nOps, nCrashes, nFaults, nSnaps,
                   limit, cut, tmp, writer, loaded, damage, closedFrom, codec, everClosed,
                   unacked>>
AppendSync(t) ==
    /\ pc[t] = "sync"
    /\ walMu' = 0
    /\ IF ~syncMode
       THEN /\ pc' = [pc EXCEPT ![t] = "store"]
            /\ UNCHANGED <<disk, starts, data, call, ret, nFaults, unacked>>
       ELSE \E ok \in SyncOutcomes :
            IF ok
            THEN /\ disk' = wal
                 /\ starts' = {}
                 /\ pc' = [pc EXCEPT ![t] = "store"]
                 /\ UNCHANGED <<data, call, ret, nFaults, unacked>>
            ELSE /\ nFaults' = nFaults + 1
                 /\ pc' = [pc EXCEPT ![t] = "idle"]
                 /\ call' = [call EXCEPT ![t] = NoEntry]
                 /\ ret' = [op |-> OpName(call[t]), err |-> TRUE]
                 /\ data' = AppendFailed(data, call[t])
                 /\ unacked' = unacked \cup {call[t].Key}
                 /\ UNCHANGED <<disk, starts>>
    /\ UNCHANGED <<wal, snapshot, fileOpen, syncMode, up, mu, before, hist, opened,
                   down, corrupt, nOps, nCrashes, nSnaps, limit, cut, tmp, writer, loaded, damage, closedFrom, codec, everClosed>>

\* the end of Set / Delete: s.mu.Lock(), the map update, s.mu.Unlock(), return nil
StoreUpdate(t) ==
    /\ pc[t] = "store" /\ mu = 0
    /\ data' = ApplyEntry(data, call[t])
    /\ hist' = Append(hist, [Operation |-> call[t].Operation, Key |-> call[t].Key,
                             Value |-> call[t].Value, sync |-> syncMode])
    /\ ret' = [op |-> OpName(call[t]), err |-> FALSE]
    /\ pc' = [pc EXCEPT ![t] = "idle"]
    /\ call' = [call EXCEPT ![t] = NoEntry]
    /\ UNCHANGED <<wal, disk, starts, snapshot, fileOpen, syncMode, up, mu, walMu, before,
                   opened, down, corrupt, nOps, nCrashes, nFaults, nSnaps, limit, cut, tmp, writer, loaded, damage, closedFrom, codec, everClosed, unacked>>

\* the end of Set / Delete, first step: s.mu.Lock(), which waits for the write
\* lock to be free and for the readers that hold the lock shared to leave
StoreLockInsideAppend(t) ==
    /\ pc[t] = "sync" /\ mu = 0 /\ \A u \in Threads : pc[u] # "Get"
    /\ mu' = t
    /\ UNCHANGED <<wal, disk, starts, snapshot, fileOpen, syncMode, up, data, walMu, call, ret,
                   before, hist, opened, down, corrupt, nOps, nCrashes, nFaults, nSnaps, limit,
                   cut, tmp, writer, loaded, damage, closedFrom, codec, everClosed, unacked, pc>>
StoreLock(t) ==
    /\ pc[t] = "store" /\ mu = 0 /\ \A u \in Threads : pc[u] # "Get"
    /\ mu' = t
    /\ pc' = [pc EXCEPT ![t] = "update"]
    /\ UNCHANGED <<wal, disk, starts, snapshot, fileOpen, syncMode, up, data, walMu, call, ret,
                   before, hist, opened, down, corrupt, nOps, nCrashes, nFaults, nSnaps, limit,
                   cut, tmp, writer, loaded, damage, closedFrom, codec, everClosed, unacked>>

\* the end of Set / Delete, second step: the map assignment or delete(), then
\* s.mu.Unlock() and return nil
StoreWrite(t) ==
    /\ pc[t] = "update"
    /\ data' = ApplyEntry(data, call[t])
    /\ hist' = Append(hist, [Operation |-> call[t].Operation, Key |-> call[t].Key,
                             Value |-> call[t].Value, sync |-> syncMode])
    /\ ret' = [op |-> OpName(call[t]), err |-> FALSE]
    /\ mu' = 0
    /\ pc' = [pc EXCEPT ![t] = "idle"]
    /\ call' = [call EXCEPT ![t] = NoEntry]
    /\ UNCHANGED <<wal, disk, starts, snapshot, fileOpen, syncMode, up, walMu, before,
                   opened, down, corrupt, nOps, nCrashes, nFaults, nSnaps, limit, cut, tmp,
                   writer, loaded, damage, closedFrom, codec, everClosed, unacked>>

\* Store.Get(key): s.mu.RLock(), which waits while the write lock is held
GetRLock(u) ==
    /\ up /\ pc[u] = "idle" /\ mu = 0
    /\ pc' = [pc EXCEPT ![u] = "Get"]
    /\ UNCHANGED <<wal, disk, starts, snapshot, fileOpen, syncMode, up, data, mu, walMu, call,
                   ret, before, hist, opened, down, corrupt, nOps, nCrashes, nFaults, nSnaps,
                   limit, cut, tmp, writer, loaded, damage, closedFrom, codec, everClosed,
                   unacked>>

\* Store.Get(key): the map lookup, the deferred s.mu.RUnlock(), return
GetRead(u, key) ==
    /\ pc[u] = "Get"
    /\ ret' = [op |-> "Get", err |-> FALSE, key |-> key, out |-> Get(key)]
    /\ pc' = [pc EXCEPT ![u] = "idle"]
    /\ UNCHANGED <<wal, disk, starts, snapshot, fileOpen, syncMode, up, data, mu, walMu, call,
                   before, hist, opened, down, corrupt, nOps, nCrashes, nFaults, nSnaps,
                   limit, cut, tmp, writer, loaded, damage, closedFrom, codec, everClosed,
                   unacked>>

\* the keys whose value in the map is a byte slice the caller holds: Set
\* stores the slice it was passed (s.data[key] = value) and Get returns the
\* slice of the map, neither makes a copy.  The caller holds the slice of the
\* call that returned last.
HeldSlices ==
    (IF ret = [op |-> "Set", err |-> FALSE] /\ hist # <<>>
     THEN {hist[Len(hist)].Key} ELSE {})
    \cup (IF ret.op = "Get" THEN {ret.key} ELSE {})

\* the caller overwrites the first byte of a slice it passed to Set or got
\* from Get: the bytes are those of the value in the map
MutateSlice(key, byte) ==
    /\ up /\ Idle /\ key \in HeldSlices
    /\ key \in DOMAIN data /\ Len(data[key]) > 0 /\ data[key][1] # byte
    /\ data' = [data EXCEPT ![key] = [data[key] EXCEPT ![1] = byte]]
    /\ ret' = [op |-> "mutate", err |-> FALSE]
    /\ UNCHANGED <<wal, disk, starts, snapshot, fileOpen, syncMode, up, mu, walMu, pc, call,
                   before, hist, opened, down, corrupt, nOps, nCrashes, nFaults, nSnaps,
                   limit, cut, tmp, writer, loaded, damage, closedFrom, codec, everClosed,
                   unacked>>

\* Store.Len() and Store.Keys() are entered: they take no lock
ReadCall(u, op) ==
    /\ up /\ pc[u] = "idle"
    /\ pc' = [pc EXCEPT ![u] = op]
    /\ UNCHANGED <<wal, disk, starts, snapshot, fileOpen, syncMode, up, data, mu, walMu, call,
                   ret, before, hist, opened, down, corrupt, nOps, nCrashes, nFaults, nSnaps,
                   limit, cut, tmp, writer, loaded, damage, closedFrom, codec, everClosed,
                   unacked>>

\* the maps a read without the lock may see: the map as it is, and, while a
\* goroutine is inside its map update, the map that update leaves
MapsSeen ==
    {data} \cup {ApplyEntry(data, call[t]) : t \in {w \in Threads : pc[w] = "update"}}

\* Store.Len(): len(s.data), return
LenRead(u) ==
    /\ pc[u] = "Len"
    /\ \E m \in MapsSeen : ret' = [op |-> "Len", err |-> FALSE, out |-> Cardinality(DOMAIN m)]
    /\ pc' = [pc EXCEPT ![u] = "idle"]
    /\ UNCHANGED <<wal, disk, starts, snapshot, fileOpen, syncMode, up, data, mu, walMu, call,
                   before, hist, opened, down, corrupt, nOps, nCrashes, nFaults, nSnaps,
                   limit, cut, tmp, writer, loaded, damage, closedFrom, codec, everClosed,
                   unacked>>

\* what the range loop of Keys does: it goes through a map it may see, or,
\* while a goroutine is inside its map update, the runtime may stop the process
\* (concurrent map iteration and map write)
RangeOutcomes ==
    {[fatal |-> FALSE, keys |-> DOMAIN m] : m \in MapsSeen}
        \cup (IF \E t \in Threads : pc[t] = "update"
              THEN {[fatal |-> TRUE, keys |-> {}]} ELSE {})

\* Store.Keys(): the range loop over s.data, return
KeysRead(u) ==
    /\ pc[u] = "Keys"
    /\ \E o \in RangeOutcomes :
         IF o.fatal
         THEN /\ fileOpen' = FALSE /\ up' = FALSE /\ data' = EmptyMap
              /\ mu' = 0 /\ walMu' = 0
              /\ pc' = [t \in Threads |-> "idle"]
              /\ call' = [t \in Threads |-> NoEntry]
              /\ unacked' = unacked \cup {call[t].Key : t \in {w \in Threads : call[w] # NoEntry}}
              /\ ret' = NoRet
              /\ down' = "fatal"
         ELSE /\ ret' = [op |-> "Keys", err |-> FALSE, out |-> o.keys]
              /\ pc' = [pc EXCEPT ![u] = "idle"]
              /\ UNCHANGED <<fileOpen, up, data, mu, walMu, call, unacked, down>>
    /\ UNCHANGED <<wal, disk, starts, snapshot, syncMode, before, hist, opened, corrupt, nOps,
                   nCrashes, nFaults, nSnaps, limit, cut, tmp, writer, loaded, damage,
                   closedFrom, codec, everClosed>>

\* Store.Close(): s.mu.Lock(), which waits for the write lock to be free and
\* for the readers to leave, with the unlock deferred
CloseLock(t) ==
    /\ up /\ pc[t] = "idle" /\ mu = 0 /\ nOps < limit.ops
    /\ \A u \in Threads : pc[u] # "Get"
    /\ mu' = t
    /\ pc' = [pc EXCEPT ![t] = "truncate"]
    /\ nOps' = nOps + 1
    /\ before' = data
    /\ ret' = NoRet
    /\ opened' = NoOpen
    /\ everClosed' = TRUE
    /\ closedFrom' = [on |-> opened.done /\ ~opened.err, data |-> data]
    /\ UNCHANGED <<wal, disk, starts, snapshot, fileOpen, syncMode, up, data, walMu, call,
                   hist, down, corrupt, nCrashes, nFaults, nSnaps, limit, cut, tmp, writer, loaded, damage, codec, unacked>>

\* Store.Close(): s.wal.Truncate(), which fails on a closed file
CloseTruncate(t) ==
    /\ pc[t] = "truncate" /\ walMu = 0
    /\ IF fileOpen
       THEN /\ wal' = <<>>
            /\ starts' = {}
            /\ pc' = [pc EXCEPT ![t] = "closeWAL"]
       ELSE /\ pc' = [pc EXCEPT ![t] = "closeAnyway"]
            /\ UNCHANGED <<wal, starts>>
    /\ UNCHANGED <<disk, snapshot, fileOpen, syncMode, up, data, mu, walMu, call, ret,
                   before, hist, opened, down, corrupt, nOps, nCrashes, nFaults, nSnaps, limit, cut, tmp, writer, loaded, damage, closedFrom, codec, everClosed, unacked>>

\* Store.Close(): s.wal.Close() (file.Sync, file.Close), the deferred
\* s.mu.Unlock(), return
CloseWAL(t) ==
    /\ pc[t] \in {"closeWAL", "closeAnyway"} /\ walMu = 0
    /\ IF fileOpen
       THEN /\ disk' = wal
            /\ starts' = {}
            /\ fileOpen' = FALSE
            /\ down' = "close"
            /\ ret' = [op |-> "Close", err |-> pc[t] = "closeAnyway"]
       ELSE /\ ret' = [op |-> "Close", err |-> TRUE]
            /\ UNCHANGED <<disk, starts, fileOpen, down>>
    /\ mu' = 0
    /\ pc' = [pc EXCEPT ![t] = "idle"]
    /\ UNCHANGED <<wal, snapshot, syncMode, up, data, walMu, call, before, hist,
                   opened, corrupt, nOps, nCrashes, nFaults, nSnaps, limit, cut, tmp, writer, loaded, damage, closedFrom, codec, everClosed, unacked>>

IsPrefix(p, s) == Len(p) <= Len(s) /\ SubSeq(s, 1, Len(p)) = p

\* what wal.log can hold after the process and the machine stop: everything
\* synced, then the writes made since, in order, the last of them cut after
\* at most MaxTorn bytes or complete; a truncation that was not synced has
\* happened or has not
CrashOutcomes ==
    IF IsPrefix(disk, wal)
    THEN {SubSeq(wal, 1, n) : n \in {n \in Len(disk)..Len(wal) :
              \/ n = Len(disk) \/ n = Len(wal)
              \/ \E s \in starts : s <= n /\ n <= s + MaxTorn}}
    ELSE {wal, disk}

InClose(t) == pc[t] \in {"truncate", "closeWAL", "closeAnyway"}

\* the process ends without Close, at any point
Crash ==
    /\ fileOpen /\ nCrashes < limit.crashes
    /\ nCrashes' = nCrashes + 1
    /\ unacked' = unacked \cup {call[t].Key : t \in {u \in Threads : call[u] # NoEntry}}
    /\ \E f \in CrashOutcomes : wal' = f /\ disk' = f
    /\ starts' = {}
    /\ fileOpen' = FALSE /\ up' = FALSE /\ data' = EmptyMap
    /\ mu' = 0 /\ walMu' = 0
    /\ pc' = [t \in Threads |-> "idle"]
    /\ call' = [t \in Threads |-> NoEntry]
    /\ ret' = NoRet /\ opened' = NoOpen
    /\ down' = IF \E t \in Threads : InClose(t) THEN "closecrash" ELSE "crash"
    /\ before' = IF \E t \in Threads : InClose(t) THEN before ELSE EmptyMap
    /\ UNCHANGED <<snapshot, syncMode, hist, corrupt, nOps, nFaults, nSnaps, limit, cut, tmp, writer, loaded, damage, closedFrom, codec, everClosed>>

\* writeSnapshot(dataDir, m) while no Store is open on the directory: the
\* temporary file is written, synced and renamed over snapshot.dat
writeSnapshot(m, order) ==
    /\ ~fileOpen /\ Idle /\ nSnaps < limit.snaps /\ writer.pc = "idle"
    /\ nSnaps' = nSnaps + 1
    /\ snapshot' = SnapshotFile(SnapshotBytes(m, nOps, order))
    /\ tmp' = NoSnapshot
    /\ damage' = NoDamage
    /\ loaded' = NoLoad
    /\ opened' = NoOpen
    /\ UNCHANGED <<wal, disk, starts, fileOpen, syncMode, up, data, mu, walMu, pc, call, ret,
                   before, hist, down, corrupt, nOps, nCrashes, nFaults, limit, cut, writer, closedFrom, codec, everClosed, unacked>>

\* the offset at which the last record of a file of valid records starts
RECURSIVE LastRecordFrom(_, _)
LastRecordFrom(file, pos) ==
    LET d == DecodeEntry(file, pos) IN
    IF d.err # NoErr THEN -1
    ELSE IF d.next = Len(file) THEN pos
    ELSE LastRecordFrom(file, d.next)

FlipBit(byte, b) == IF Bit(byte, b) = 1 THEN byte - 2 ^ b ELSE byte + 2 ^ b

\* one bit of the final record of a closed wal.log of valid records changes
CorruptTail ==
    /\ ~fileOpen /\ Idle /\ ~corrupt.on /\ Len(wal) > 0
    /\ \E at \in {LastRecordFrom(wal, 0)} :
         /\ at >= 0
         /\ \E i \in (at + 1)..Len(wal), b \in 0..7 :
                wal' = [wal EXCEPT ![i] = FlipBit(wal[i], b)]
         /\ corrupt' = [on |-> TRUE, at |-> at]
    /\ disk' = wal'
    /\ starts' = {}
    /\ opened' = NoOpen
    /\ UNCHANGED <<snapshot, fileOpen, syncMode, up, data, mu, walMu, pc, call, ret,
                   before, hist, down, nOps, nCrashes, nFaults, nSnaps, limit, cut, tmp, writer, loaded, damage, closedFrom, codec, everClosed, unacked>>

(***************************************************************************)
(* entry.go called directly on a bytes.Buffer: Encode, DecodeEntry.        *)
(***************************************************************************)
\* the keys, values and timestamps of the entries that are encoded: the empty
\* key, the empty (or nil) value, the largest timestamp the model's integers
\* hold
CodecKeys == {<<>>, <<97>>, <<97, 98>>}
CodecValues == {<<>>, <<120>>}
Timestamps == {0, 2147483647}

CodecEntries ==
    {NewSetEntry(key, value, ts) : key \in CodecKeys, value \in CodecValues, ts \in Timestamps}
        \cup {NewDeleteEntry(key, ts) : key \in CodecKeys, ts \in Timestamps}

\* e.Encode(&buf), before anything was decoded from the buffer
EncodeEntry(e) ==
    /\ Len(codec.written) < MaxRecords /\ codec.read = <<>>
    /\ codec' = [codec EXCEPT !.buf = codec.buf \o Encode(e),
                              !.written = Append(codec.written, e)]
    /\ UNCHANGED <<wal, disk, starts, snapshot, fileOpen, syncMode, up, data, mu, walMu, pc,
                   call, ret, before, hist, opened, down, corrupt, nOps, nCrashes, nFaults,
                   nSnaps, limit, cut, tmp, writer, loaded, damage, closedFrom, everClosed,
                   unacked>>

\* DecodeEntry(&buf): the next record is read from the buffer
DecodeNext ==
    /\ codec.written # <<>> /\ codec.err = NoErr /\ codec.pos < Len(codec.buf)
    /\ \E d \in {DecodeEntry(codec.buf, codec.pos)} :
         codec' = [codec EXCEPT !.read = IF d.err = NoErr THEN Append(codec.read, d.entry)
                                         ELSE codec.read,
                                !.pos = IF d.err = NoErr THEN d.next ELSE codec.pos,
                                !.err = d.err]
    /\ UNCHANGED <<wal, disk, starts, snapshot, fileOpen, syncMode, up, data, mu, walMu, pc,
                   call, ret, before, hist, opened, down, corrupt, nOps, nCrashes, nFaults,
                   nSnaps, limit, cut, tmp, writer, loaded, damage, closedFrom, everClosed,
                   unacked>>

(***************************************************************************)
(* wal.go called directly, without a Store: NewWAL, Append, Replay, Close. *)
(***************************************************************************)
\* operation codes that are neither OpSet nor OpDelete
UnknownOps == {3}

\* the entries the callers of WAL.Append pass at clock reading ts
WALEntries(ts) ==
    {NewSetEntry(key, <<120>>, ts) : key \in Keys}
        \cup {NewDeleteEntry(key, ts) : key \in Keys}
        \cup {[Operation |-> op, Timestamp |-> ts, Key |-> <<97>>, Value |-> <<>>] :
                 op \in UnknownOps}

\* NewWAL(dataDir, syncMode): wal.log is opened with O_RDWR | O_CREATE | O_APPEND
NewWAL(sync) ==
    /\ ~fileOpen /\ ~up /\ Idle
    /\ fileOpen' = TRUE
    /\ syncMode' = sync
    /\ walMu' = 0
    /\ ret' = NoRet
    /\ opened' = NoOpen
    /\ UNCHANGED <<wal, disk, starts, snapshot, up, data, mu, pc, call, before, hist, down,
                   corrupt, nOps, nCrashes, nFaults, nSnaps, limit, cut, tmp, writer, loaded,
                   damage, closedFrom, codec, everClosed, unacked>>

\* what file.Write(buf) makes of a file opened with O_APPEND: the bytes go to
\* the end of the file, wherever the offset of the handle is
WriteOverStart(file, buf) == buf \o SubSeq(file, Len(buf) + 1, Len(file))
WriteAppend(file, buf) == file \o buf

\* WAL.Append(entry) up to file.Write: lock WAL.mu, encode into the buffer,
\* write the buffer; a failed write unlocks and returns the error
WALAppend(t, e) ==
    /\ fileOpen /\ ~up /\ pc[t] = "idle" /\ walMu = 0 /\ nOps < limit.ops
    /\ nOps' = nOps + 1
    /\ opened' = NoOpen
    /\ \E buf \in {Encode(e)} : \E n \in WriteCuts(buf) :
         /\ wal' = WriteAppend(wal, SubSeq(buf, 1, n))
         /\ starts' = starts \cup {Len(wal)}
         /\ IF n = Len(buf)
            THEN /\ walMu' = t
                 /\ pc' = [pc EXCEPT ![t] = "walsync"]
                 /\ call' = [call EXCEPT ![t] = e]
                 /\ ret' = NoRet
                 /\ UNCHANGED nFaults
            ELSE /\ nFaults' = nFaults + 1
                 /\ ret' = [op |-> "Append", err |-> TRUE]
                 /\ UNCHANGED <<walMu, pc, call>>
    /\ UNCHANGED <<disk, snapshot, fileOpen, syncMode, up, data, mu, before, hist, down,
                   corrupt, nCrashes, nSnaps, limit, cut, tmp, writer, loaded, damage,
                   closedFrom, codec, everClosed, unacked>>

\* the rest of WAL.Append: file.Sync if syncMode, unlock WAL.mu, return
WALAppendSync(t) ==
    /\ pc[t] = "walsync"
    /\ walMu' = 0
    /\ pc' = [pc EXCEPT ![t] = "idle"]
    /\ call' = [call EXCEPT ![t] = NoEntry]
    /\ \E ok \in IF syncMode THEN SyncOutcomes ELSE {TRUE} :
         IF ok
         THEN /\ disk' = IF syncMode THEN wal ELSE disk
              /\ starts' = IF syncMode THEN {} ELSE starts
              /\ hist' = Append(hist, [Operation |-> call[t].Operation, Key |-> call[t].Key,
                                       Value |-> call[t].Value, by |-> t])
              /\ ret' = [op |-> "Append", err |-> FALSE]
              /\ UNCHANGED nFaults
         ELSE /\ nFaults' = nFaults + 1
              /\ ret' = [op |-> "Append", err |-> TRUE]
              /\ UNCHANGED <<disk, starts, hist>>
    /\ UNCHANGED <<wal, snapshot, fileOpen, syncMode, up, data, mu, before, opened, down,
                   corrupt, nOps, nCrashes, nSnaps, limit, cut, tmp, writer, loaded, damage,
                   closedFrom, codec, everClosed, unacked>>

\* WAL.Replay(callback) called directly, under WAL.mu from start to end
WALReplay ==
    /\ fileOpen /\ ~up /\ walMu = 0 /\ ~opened.done
    /\ \E r \in {Replay(wal)} :
         opened' = [done |-> TRUE, err |-> r.err, entries |-> r.entries]
    /\ ret' = NoRet
    /\ UNCHANGED <<wal, disk, starts, snapshot, fileOpen, syncMode, up, data, mu, walMu, pc,
                   call, before, hist, down, corrupt, nOps, nCrashes, nFaults, nSnaps, limit, cut,
                   tmp, writer, loaded, damage, closedFrom, codec, everClosed, unacked>>

\* WAL.Replay(callback), first step: lock WAL.mu, seek to the start of the file
ReplayBegin(t) ==
    /\ fileOpen /\ ~up /\ walMu = 0 /\ pc[t] = "idle" /\ ~opened.done
    /\ walMu' = t
    /\ pc' = [pc EXCEPT ![t] = "replay"]
    /\ codec' = [buf |-> wal, written |-> <<>>, read |-> <<>>, pos |-> 0, err |-> NoErr]
    /\ ret' = NoRet
    /\ UNCHANGED <<wal, disk, starts, snapshot, fileOpen, syncMode, up, data, mu, call, before,
                   hist, opened, down, corrupt, nOps, nCrashes, nFaults, nSnaps, limit, cut,
                   tmp, writer, loaded, damage, closedFrom, everClosed, unacked>>

\* the offset of the file after DecodeEntry returned the record d it read at
\* pos: the reads have consumed the record
StaysAtRecord(pos, d) == pos
AfterRecord(pos, d) == d.next

\* WAL.Replay(callback), one iteration of its loop: DecodeEntry; on an error
\* the loop ends (break, or return of the error), WAL.mu is unlocked and Replay
\* returns; a record of an unknown operation is skipped; any other record is
\* handed to the callback
ReplayStep(t) ==
    /\ pc[t] = "replay"
    /\ \E d \in {DecodeEntry(codec.buf, codec.pos)} :
         IF d.err # NoErr
         THEN /\ opened' = [done |-> TRUE, err |-> ~StopsReplay(d.err), entries |-> codec.read]
              /\ codec' = [codec EXCEPT !.err = d.err]
              /\ walMu' = 0
              /\ pc' = [pc EXCEPT ![t] = "idle"]
         ELSE /\ codec' = [codec EXCEPT !.pos = AfterRecord(codec.pos, d),
                                        !.read = IF KnownOp(d.entry.Operation)
                                                 THEN Append(codec.read, d.entry)
                                                 ELSE codec.read]
              /\ UNCHANGED <<opened, walMu, pc>>
    /\ UNCHANGED <<wal, disk, starts, snapshot, fileOpen, syncMode, up, data, mu, call, ret,
                   before, hist, down, corrupt, nOps, nCrashes, nFaults, nSnaps, limit, cut,
                   tmp, writer, loaded, damage, closedFrom, everClosed, unacked>>

\* what w.file.Truncate(0) makes of the file
TruncatedNothing(file) == file
Truncated(file) == <<>>

\* WAL.Truncate() called directly on an open WAL: under WAL.mu, truncate the
\* file to 0 bytes and seek to the start
WALTruncate ==
    /\ fileOpen /\ ~up /\ walMu = 0 /\ Idle
    /\ wal' = Truncated(wal)
    /\ starts' = {}
    /\ cut' = [on |-> TRUE, at |-> Len(hist)]
    /\ ret' = [op |-> "Truncate", err |-> FALSE]
    /\ opened' = NoOpen
    /\ UNCHANGED <<disk, snapshot, fileOpen, syncMode, up, data, mu, walMu, pc, call, before,
                   hist, down, corrupt, nOps, nCrashes, nFaults, nSnaps, limit, tmp, writer,
                   loaded, damage, closedFrom, codec, everClosed, unacked>>

\* WAL.Close() called directly (closed is TRUE), or the WAL handle is given up
\* without Close while the process goes on (closed is FALSE)
WALClose(closed) ==
    /\ fileOpen /\ ~up /\ walMu = 0 /\ Idle
    /\ fileOpen' = FALSE
    /\ disk' = IF closed THEN wal ELSE disk
    /\ starts' = IF closed THEN {} ELSE starts
    /\ down' = IF closed THEN "close" ELSE "dropped"
    /\ ret' = NoRet
    /\ opened' = NoOpen
    /\ UNCHANGED <<wal, snapshot, syncMode, up, data, mu, walMu, pc, call, before, hist,
                   corrupt, nOps, nCrashes, nFaults, nSnaps, limit, cut, tmp, writer, loaded,
                   damage, closedFrom, codec, everClosed, unacked>>

\* the WAL handle of the caller was closed by WAL.Close and is still held
WALClosed == ~fileOpen /\ ~up /\ down = "close"

\* what the first call on the file returns when the *os.File is closed (Write
\* in Append, Seek in Replay, Truncate in Truncate, Sync in Close): an error
ClosedFileNoError == FALSE
ClosedFileError == TRUE

\* Append, Replay, Truncate or Close called on a WAL after WAL.Close returned:
\* the first call on the file fails and the method returns its error
ClosedWALCall(op) ==
    /\ WALClosed /\ Idle
    /\ ret' = [op |-> op, err |-> ClosedFileError]
    /\ opened' = NoOpen
    /\ UNCHANGED <<wal, disk, starts, snapshot, fileOpen, syncMode, up, data, mu, walMu, pc,
                   call, before, hist, down, corrupt, nOps, nCrashes, nFaults, nSnaps, limit,
                   cut, tmp, writer, loaded, damage, closedFrom, codec, everClosed, unacked>>

\* the path writeSnapshot creates and fills: tempPath, snapshot.dat.tmp in the
\* data directory
TempPathIsCanonical == "snapshot.dat"
TempPath == "snapshot.dat.tmp"

\* the file of the data directory at a path
FileAt(path) == IF path = "snapshot.dat" THEN snapshot ELSE tmp

\* the file at path becomes f; the other file of the directory stays
PutFile(path, f) ==
    IF path = "snapshot.dat"
    THEN snapshot' = f /\ tmp' = tmp
    ELSE tmp' = f /\ snapshot' = snapshot

\* whether an I/O call of this step may succeed, may fail
IOOutcomes == {TRUE} \cup (IF nFaults < limit.faults THEN {FALSE} ELSE {})

\* writeSnapshot returns an error from a point where the deferred cleanup is
\* armed: file.Close(), os.Remove(tempPath)
SnapshotFailed ==
    /\ PutFile(TempPath, NoSnapshot)
    /\ writer' = [writer EXCEPT !.pc = "idle"]
    /\ ret' = [op |-> "writeSnapshot", err |-> TRUE]
    /\ nFaults' = nFaults + 1

\* writeSnapshot(dataDir, m), first step: os.OpenFile(tempPath, O_WRONLY |
\* O_CREATE | O_TRUNC); the range over m will visit the keys in `order`
SnapshotCreate(m, order) ==
    /\ ~fileOpen /\ Idle /\ writer.pc = "idle" /\ nSnaps < limit.snaps
    /\ nSnaps' = nSnaps + 1
    /\ damage' = NoDamage /\ loaded' = NoLoad /\ opened' = NoOpen
    /\ \E ok \in IOOutcomes :
         IF ok
         THEN /\ PutFile(TempPath, SnapshotFile(<<>>))
              /\ writer' = [pc |-> "header", m |-> m, order |-> order, i |-> 1,
                            prev |-> snapshot]
              /\ ret' = NoRet
              /\ UNCHANGED nFaults
         ELSE /\ writer' = [pc |-> "idle", m |-> m, order |-> order, i |-> 1,
                            prev |-> snapshot]
              /\ ret' = [op |-> "writeSnapshot", err |-> TRUE]
              /\ nFaults' = nFaults + 1
              /\ UNCHANGED <<snapshot, tmp>>
    /\ UNCHANGED <<wal, disk, starts, fileOpen, syncMode, up, data, mu, walMu, pc, call,
                   before, hist, down, corrupt, nOps, nCrashes, limit, cut, closedFrom, codec,
                   everClosed, unacked>>

\* the bytes the file.Write / binary.Write of the writer's position puts into
\* the file: the header, its checksum, entry i, its checksum
SnapshotChunk ==
    LET key == writer.order[writer.i] IN
    CASE writer.pc = "header" -> SnapshotHeader(nOps, Len(writer.order))
      [] writer.pc = "headerCRC" -> ChecksumIEEE(SnapshotHeader(nOps, Len(writer.order)))
      [] writer.pc = "entry" -> SnapshotEntryData(key, writer.m[key])
      [] writer.pc = "entryCRC" -> ChecksumIEEE(SnapshotEntryData(key, writer.m[key]))

\* where writeSnapshot goes after the write of its position
SnapshotAfterWrite ==
    CASE writer.pc = "header" -> [writer EXCEPT !.pc = "headerCRC"]
      [] writer.pc = "headerCRC" ->
            [writer EXCEPT !.pc = IF Len(writer.order) = 0 THEN "sync" ELSE "entry"]
      [] writer.pc = "entry" -> [writer EXCEPT !.pc = "entryCRC"]
      [] writer.pc = "entryCRC" ->
            [writer EXCEPT !.pc = IF writer.i = Len(writer.order) THEN "sync" ELSE "entry",
                           !.i = writer.i + 1]

\* writeSnapshot, one write to the file
SnapshotWrite ==
    /\ writer.pc \in {"header", "headerCRC", "entry", "entryCRC"}
    /\ \E ok \in IOOutcomes :
         IF ok
         THEN /\ PutFile(TempPath, SnapshotFile(FileAt(TempPath).bytes \o SnapshotChunk))
              /\ writer' = SnapshotAfterWrite
              /\ UNCHANGED <<ret, nFaults>>
         ELSE SnapshotFailed
    /\ UNCHANGED <<wal, disk, starts, fileOpen, syncMode, up, data, mu, walMu, pc, call,
                   before, hist, opened, down, corrupt, nOps, nCrashes, nSnaps, limit, cut,
                   loaded, damage, closedFrom, codec, everClosed, unacked>>

\* writeSnapshot: file.Sync(), then file.Close() and file = nil
SnapshotSyncClose ==
    /\ writer.pc \in {"sync", "close"}
    /\ \E ok \in IOOutcomes :
         IF ok
         THEN /\ writer' = [writer EXCEPT !.pc = IF writer.pc = "sync" THEN "close" ELSE "rename"]
              /\ UNCHANGED <<snapshot, tmp, ret, nFaults>>
         ELSE SnapshotFailed
    /\ UNCHANGED <<wal, disk, starts, fileOpen, syncMode, up, data, mu, walMu, pc, call,
                   before, hist, opened, down, corrupt, nOps, nCrashes, nSnaps, limit, cut,
                   loaded, damage, closedFrom, codec, everClosed, unacked>>

\* writeSnapshot: os.Rename(tempPath, snapshotPath) and return; when it fails
\* the cleanup is no longer armed
SnapshotRename ==
    /\ writer.pc = "rename"
    /\ \E ok \in IOOutcomes :
         IF ok
         THEN /\ snapshot' = FileAt(TempPath)
              /\ tmp' = IF TempPath = "snapshot.dat" THEN tmp ELSE NoSnapshot
              /\ ret' = [op |-> "writeSnapshot", err |-> FALSE]
              /\ UNCHANGED nFaults
         ELSE /\ ret' = [op |-> "writeSnapshot", err |-> TRUE]
              /\ nFaults' = nFaults + 1
              /\ UNCHANGED <<snapshot, tmp>>
    /\ writer' = [writer EXCEPT !.pc = "idle"]
    /\ UNCHANGED <<wal, disk, starts, fileOpen, syncMode, up, data, mu, walMu, pc, call,
                   before, hist, opened, down, corrupt, nOps, nCrashes, nSnaps, limit, cut,
                   loaded, damage, closedFrom, codec, everClosed, unacked>>

\* what a file written and not yet synced can hold after the machine stops:
\* nothing at all, a beginning of at most MaxTorn bytes, or everything
CutFiles(f) ==
    {NoSnapshot} \cup
    {SnapshotFile(SubSeq(f.bytes, 1, n)) : n \in {n \in 0..Len(f.bytes) :
                                                   n <= MaxTorn \/ n = Len(f.bytes)}}

\* the process and the machine stop inside writeSnapshot, or after it returned
\* and before the directory was synced.  A file that was synced keeps its
\* content; a rename has happened or has not.
WriterCrash ==
    /\ nCrashes < limit.crashes
    /\ writer.pc # "idle" \/ (ret.op = "writeSnapshot" /\ ~ret.err)
    /\ nCrashes' = nCrashes + 1
    /\ IF writer.pc \in {"header", "headerCRC", "entry", "entryCRC", "sync"}
       THEN \E f \in CutFiles(FileAt(TempPath)) : PutFile(TempPath, f)
       ELSE IF writer.pc \in {"close", "rename"}
       THEN UNCHANGED <<snapshot, tmp>>
       ELSE \E renamed \in BOOLEAN :
                IF renamed \/ TempPath = "snapshot.dat"
                THEN UNCHANGED <<snapshot, tmp>>
                ELSE snapshot' = writer.prev /\ tmp' = snapshot
    /\ writer' = [writer EXCEPT !.pc = "idle"]
    /\ ret' = NoRet
    /\ down' = "crash"
    /\ UNCHANGED <<wal, disk, starts, fileOpen, syncMode, up, data, mu, walMu, pc, call,
                   before, hist, opened, corrupt, nOps, nFaults, nSnaps, limit, cut,
                   loaded, damage, closedFrom, codec, everClosed, unacked>>

\* the part of a snapshot file that byte i (1-based) belongs to: the magic, the
\* rest of the header with its checksum, or an entry
SnapshotPart(i) == IF i <= 4 THEN "magic" ELSE IF i <= 20 THEN "header" ELSE "entry"

\* one bit of snapshot.dat changes while no Store is open on the directory
CorruptSnapshot ==
    /\ ~fileOpen /\ Idle /\ writer.pc = "idle"
    /\ snapshot.exists /\ damage = NoDamage
    /\ \E i \in 1..Len(snapshot.bytes), b \in 0..7 :
         /\ snapshot' = SnapshotFile([snapshot.bytes EXCEPT ![i] = FlipBit(snapshot.bytes[i], b)])
         /\ damage' = [kind |-> SnapshotPart(i), at |-> i]
    /\ loaded' = NoLoad
    /\ opened' = NoOpen
    /\ UNCHANGED <<wal, disk, starts, fileOpen, syncMode, up, data, mu, walMu, pc, call, ret,
                   before, hist, down, corrupt, nOps, nCrashes, nFaults, nSnaps, limit, cut,
                   tmp, writer, closedFrom, codec, everClosed, unacked>>

\* snapshot.dat loses its end while no Store is open on the directory
TruncateSnapshot ==
    /\ ~fileOpen /\ Idle /\ writer.pc = "idle"
    /\ snapshot.exists /\ damage = NoDamage
    /\ \E n \in 0..(Len(snapshot.bytes) - 1) :
         /\ snapshot' = SnapshotFile(SubSeq(snapshot.bytes, 1, n))
         /\ damage' = [kind |-> "short", at |-> n]
    /\ loaded' = NoLoad
    /\ opened' = NoOpen
    /\ UNCHANGED <<wal, disk, starts, fileOpen, syncMode, up, data, mu, walMu, pc, call, ret,
                   before, hist, down, corrupt, nOps, nCrashes, nFaults, nSnaps, limit, cut,
                   tmp, writer, closedFrom, codec, everClosed, unacked>>

\* a call of loadSnapshot(dataDir)
LoadSnapshot ==
    /\ writer.pc = "idle" /\ ~loaded.done
    /\ \E r \in {loadSnapshot(snapshot)} :
         loaded' = [done |-> TRUE, err |-> r.err, data |-> r.data]
    /\ UNCHANGED <<wal, disk, starts, snapshot, fileOpen, syncMode, up, data, mu, walMu, pc,
                   call, ret, before, hist, opened, down, corrupt, nOps, nCrashes, nFaults,
                   nSnaps, limit, cut, tmp, writer, damage, closedFrom, codec, everClosed, unacked>>

(***************************************************************************)
(* Specifications.                                                         *)
(***************************************************************************)
\* goroutines calling one Store concurrently
Init == InitWith([ops |-> MaxOps, crashes |-> 0, faults |-> 0, snaps |-> 0])

Next ==
    \/ \E sync \in BOOLEAN : OpenWithConfig(sync)
    \/ \E t \in Threads, key \in Keys, value \in Values : Set(t, key, value)
    \/ \E t \in Threads, key \in Keys : Delete(t, key)
    \/ \E t \in Threads : AppendSync(t)
    \/ \E t \in Threads : StoreUpdate(t)
    \/ \E t \in Threads : CloseLock(t)
    \/ \E t \in Threads : CloseTruncate(t)
    \/ \E t \in Threads : CloseWAL(t)

Spec == Init /\ [][Next]_vars

\* one goroutine, and crashes
InitSeq == InitWith([ops |-> MaxOps, crashes |-> MaxCrashes, faults |-> 0, snaps |-> 0])

NextSeq ==
    \/ \E sync \in BOOLEAN : OpenWithConfig(sync)
    \/ \E key \in Keys, value \in Values : Set(1, key, value)
    \/ \E key \in Keys : Delete(1, key)
    \/ AppendSync(1)
    \/ StoreUpdate(1)
    \/ CloseLock(1)
    \/ CloseTruncate(1)
    \/ CloseWAL(1)
    \/ Crash

SpecSeq == InitSeq /\ [][NextSeq]_vars

\* one goroutine, and I/O errors
InitFault == InitWith([ops |-> MaxOps, crashes |-> 0, faults |-> MaxFaults, snaps |-> 0])

NextFault ==
    \/ \E sync \in BOOLEAN : OpenWithConfig(sync)
    \/ \E key \in Keys, value \in Values : Set(1, key, value)
    \/ \E key \in Keys : Delete(1, key)
    \/ AppendSync(1)
    \/ StoreUpdate(1)
    \/ CloseLock(1)
    \/ CloseTruncate(1)
    \/ CloseWAL(1)

SpecFault == InitFault /\ [][NextFault]_vars

\* one goroutine, and snapshot files in the data directory
InitSnap == InitWith([ops |-> MaxOps, crashes |-> 0, faults |-> 0, snaps |-> MaxSnapshots])

NextSnap ==
    \/ \E sync \in BOOLEAN : OpenWithConfig(sync)
    \/ \E key \in Keys, value \in Values : Set(1, key, value)
    \/ \E key \in Keys : Delete(1, key)
    \/ AppendSync(1)
    \/ StoreUpdate(1)
    \/ CloseLock(1)
    \/ CloseTruncate(1)
    \/ CloseWAL(1)
    \/ \E m \in Maps : \E order \in RangeOrders(m) : writeSnapshot(m, order)

SpecSnap == InitSnap /\ [][NextSnap]_vars

\* one goroutine, crashes, and one flipped bit in the last record of wal.log
InitCorrupt == InitWith([ops |-> MaxOpsCorrupt, crashes |-> 1, faults |-> 0, snaps |-> 0])

NextCorrupt ==
    \/ \E sync \in BOOLEAN : OpenWithConfig(sync)
    \/ \E key \in Keys, value \in Values : Set(1, key, value)
    \/ \E key \in Keys : Delete(1, key)
    \/ AppendSync(1)
    \/ StoreUpdate(1)
    \/ CloseLock(1)
    \/ CloseTruncate(1)
    \/ CloseWAL(1)
    \/ Crash
    \/ CorruptTail

SpecCorrupt == InitCorrupt /\ [][NextCorrupt]_vars

\* snapshot files that get damaged, loadSnapshot and Open
InitLoad == InitWith([ops |-> MaxOps, crashes |-> 0, faults |-> 0, snaps |-> MaxSnapshots])

NextLoad ==
    \/ \E m \in Maps : \E order \in RangeOrders(m) : writeSnapshot(m, order)
    \/ CorruptSnapshot
    \/ TruncateSnapshot
    \/ LoadSnapshot
    \/ \E sync \in BOOLEAN : OpenWithConfig(sync)

SpecLoad == InitLoad /\ [][NextLoad]_vars

\* writeSnapshot step by step, with I/O errors and crashes
InitWrite == InitWith([ops |-> MaxOps, crashes |-> MaxCrashes, faults |-> MaxFaults,
                       snaps |-> MaxWrites])

NextWrite ==
    \/ \E m \in Maps : \E order \in RangeOrders(m) : SnapshotCreate(m, order)
    \/ SnapshotWrite
    \/ SnapshotSyncClose
    \/ SnapshotRename
    \/ WriterCrash

SpecWrite == InitWrite /\ [][NextWrite]_vars

\* goroutines appending Set entries to one WAL directly, and Replay
InitWAL == InitWith([ops |-> MaxOps, crashes |-> 0, faults |-> 0, snaps |-> 0])

NextWAL ==
    \/ \E sync \in BOOLEAN : NewWAL(sync)
    \/ \E t \in Threads, key \in Keys : WALAppend(t, NewSetEntry(key, <<120>>, nOps))
    \/ \E t \in Threads : WALAppendSync(t)
    \/ WALReplay
    \/ \E closed \in BOOLEAN : WALClose(closed)

SpecWAL == InitWAL /\ [][NextWAL]_vars

\* one goroutine appending entries of every operation code to a WAL directly,
\* then Replay or Open on its file
InitWALSeq == InitWith([ops |-> MaxOps, crashes |-> 0, faults |-> 0, snaps |-> 0])

NextWALSeq ==
    \/ \E sync \in BOOLEAN : NewWAL(sync)
    \/ \E e \in WALEntries(nOps) : WALAppend(1, e)
    \/ WALAppendSync(1)
    \/ WALReplay
    \/ \E closed \in BOOLEAN : WALClose(closed)
    \/ OpenWithConfig(TRUE)

SpecWALSeq == InitWALSeq /\ [][NextWALSeq]_vars

\* entries encoded into a buffer and decoded from it
InitCodec == InitWith([ops |-> MaxOps, crashes |-> 0, faults |-> 0, snaps |-> 0])

NextCodec ==
    \/ \E e \in CodecEntries : EncodeEntry(e)
    \/ DecodeNext

SpecCodec == InitCodec /\ [][NextCodec]_vars

\* writeSnapshot step by step with I/O errors, and loadSnapshot
InitRound == InitWith([ops |-> MaxOps, crashes |-> 0, faults |-> MaxFaults,
                       snaps |-> MaxWrites])

NextRound ==
    \/ \E m \in SnapMaps : \E order \in RangeOrders(m) : SnapshotCreate(m, order)
    \/ SnapshotWrite
    \/ SnapshotSyncClose
    \/ SnapshotRename
    \/ LoadSnapshot

SpecRound == InitRound /\ [][NextRound]_vars

\* one goroutine appending to a WAL directly, truncating it, and Replay
InitTrunc == InitWith([ops |-> MaxOps, crashes |-> 0, faults |-> 0, snaps |-> 0])

NextTrunc ==
    \/ \E sync \in BOOLEAN : NewWAL(sync)
    \/ \E e \in WALEntries(nOps) : WALAppend(1, e)
    \/ WALAppendSync(1)
    \/ WALTruncate
    \/ WALReplay

SpecTrunc == InitTrunc /\ [][NextTrunc]_vars

\* one goroutine that sets and deletes keys, deleting also keys that are not
\* in the map, with SyncWrites = true; the process may end without Close, at
\* any point, and the Store is opened again
InitDelete == InitWith([ops |-> MaxOps, crashes |-> MaxCrashes, faults |-> 0, snaps |-> 0])

NextDelete ==
    \/ OpenWithConfig(TRUE)
    \/ \E key \in Keys : Set(1, key, <<120>>)
    \/ \E key \in Keys : Delete(1, key)
    \/ AppendSync(1)
    \/ StoreUpdate(1)
    \/ Crash

SpecDelete == InitDelete /\ [][NextDelete]_vars

\* one goroutine that writes and one that reads, on one Store
InitRace == InitWith([ops |-> MaxOps, crashes |-> 0, faults |-> 0, snaps |-> 0])

NextRace ==
    \/ OpenWithConfig(TRUE)
    \/ \E key \in Keys : Set(1, key, <<120>>)
    \/ \E key \in Keys : Delete(1, key)
    \/ AppendSync(1)
    \/ StoreLock(1)
    \/ StoreWrite(1)
    \/ GetRLock(2)
    \/ \E key \in Keys : GetRead(2, key)
    \/ \E op \in {"Len", "Keys"} : ReadCall(2, op)
    \/ LenRead(2)
    \/ KeysRead(2)

SpecRace == InitRace /\ [][NextRace]_vars

\* the Set and Delete entries of one key appended when the clock may read
\* anything, also less than it read before
StampedEntries ==
    {NewSetEntry(<<97>>, value, ts) : value \in Values, ts \in Timestamps}
        \cup {NewDeleteEntry(<<97>>, ts) : ts \in Timestamps}

\* a data directory in which one goroutine appends entries with arbitrary
\* timestamps to a WAL, with Open on its file afterwards, or in which snapshot
\* files are written and loaded
InitStamp == InitWith([ops |-> MaxOps, crashes |-> 0, faults |-> 0, snaps |-> MaxSnapshots])

NextStamp ==
    \/ nSnaps = 0 /\ ~loaded.done /\ NewWAL(TRUE)
    \/ \E e \in StampedEntries : WALAppend(1, e)
    \/ WALAppendSync(1)
    \/ WALClose(TRUE)
    \/ nSnaps = 0 /\ ~loaded.done /\ OpenWithConfig(TRUE)
    \/ down = "fresh" /\ ~fileOpen /\ ~opened.done
          /\ \E m \in Maps : \E order \in RangeOrders(m) : writeSnapshot(m, order)
    \/ down = "fresh" /\ ~fileOpen /\ ~opened.done /\ LoadSnapshot

SpecStamp == InitStamp /\ [][NextStamp]_vars

\* goroutines that call Set, Delete, Get, Len, Keys and Close on one Store
InitLive == InitWith([ops |-> MaxCalls, crashes |-> 0, faults |-> 0, snaps |-> 0])

NextLive ==
    \/ OpenWithConfig(TRUE)
    \/ \E t \in Threads : Set(t, <<97>>, <<120>>)
    \/ \E t \in Threads : Delete(t, <<97>>)
    \/ \E t \in Threads : AppendSync(t)
    \/ \E t \in Threads : StoreLock(t)
    \/ \E t \in Threads : StoreWrite(t)
    \/ \E t \in Threads : GetRLock(t)
    \/ \E t \in Threads : GetRead(t, <<97>>)
    \/ \E t \in Threads, op \in {"Len", "Keys"} : ReadCall(t, op)
    \/ \E t \in Threads : LenRead(t)
    \/ \E t \in Threads : KeysRead(t)
    \/ \E t \in Threads : CloseLock(t)
    \/ \E t \in Threads : CloseTruncate(t)
    \/ \E t \in Threads : CloseWAL(t)

\* the scheduler runs every goroutine that can take a step; a goroutine that
\* waits in Lock gets the lock once it is free often enough (sync.Mutex hands
\* the lock to a starving waiter, a waiting writer of sync.RWMutex keeps new
\* readers out)
FairLive ==
    \A t \in Threads :
        /\ WF_vars(AppendSync(t)) /\ WF_vars(StoreWrite(t)) /\ WF_vars(GetRead(t, <<97>>))
        /\ WF_vars(LenRead(t)) /\ WF_vars(KeysRead(t)) /\ WF_vars(CloseWAL(t))
        /\ SF_vars(StoreLock(t)) /\ SF_vars(CloseTruncate(t))

SpecLive == InitLive /\ [][NextLive]_vars /\ FairLive

\* one goroutine that sets and deletes keys on a Store opened on a data
\* directory that may hold a snapshot file of both keys
InitFrame == InitWith([ops |-> MaxOps, crashes |-> 0, faults |-> 0, snaps |-> MaxSnapshots])

NextFrame ==
    \/ \E m \in [Keys -> {<<121>>}] : \E order \in RangeOrders(m) : writeSnapshot(m, order)
    \/ OpenWithConfig(TRUE)
    \/ \E key \in Keys, value \in Values : Set(1, key, value)
    \/ \E key \in Keys : Delete(1, key)
    \/ AppendSync(1)
    \/ StoreUpdate(1)

SpecFrame == InitFrame /\ [][NextFrame]_vars

\* one goroutine that sets, deletes and gets keys, and writes into the byte
\* slices it passed to Set or got from Get
InitAlias == InitWith([ops |-> MaxOps, crashes |-> 0, faults |-> 0, snaps |-> 0])

NextAlias ==
    \/ OpenWithConfig(TRUE)
    \/ \E key \in Keys, value \in Values : Set(1, key, value)
    \/ \E key \in Keys : Delete(1, key)
    \/ AppendSync(1)
    \/ StoreUpdate(1)
    \/ GetRLock(1)
    \/ \E key \in Keys : GetRead(1, key)
    \/ \E key \in Keys : MutateSlice(key, 122)

SpecAlias == InitAlias /\ [][NextAlias]_vars

\* one goroutine appending entries of every operation code to a WAL, with
\* writes that fail half-way and leave torn bytes in front of later records,
\* and the loop of Replay on the file, iteration by iteration
InitReplay == InitWith([ops |-> MaxOpsCorrupt, crashes |-> 0, faults |-> MaxFaults, snaps |-> 0])

NextReplay ==
    \/ NewWAL(TRUE)
    \/ \E e \in {w \in WALEntries(nOps) : w.Key = <<97>>} : WALAppend(1, e)
    \/ WALAppendSync(1)
    \/ ReplayBegin(1)
    \/ ReplayStep(1)

SpecReplay == InitReplay /\ [][NextReplay]_vars /\ WF_vars(ReplayStep(1))

\* one goroutine that goes on calling a WAL, or a Store, after it was closed
InitClosed == InitWith([ops |-> MaxOps, crashes |-> 0, faults |-> 0, snaps |-> 0])

NextClosed ==
    \/ \E sync \in BOOLEAN : NewWAL(sync)
    \/ \E key \in Keys : WALAppend(1, NewSetEntry(key, <<120>>, nOps))
    \/ WALAppendSync(1)
    \/ \E closed \in BOOLEAN : WALClose(closed)
    \/ \E op \in {"Append", "Replay", "Truncate", "Close"} : ClosedWALCall(op)
    \/ \E sync \in BOOLEAN : OpenWithConfig(sync)
    \/ \E key \in Keys, value \in Values : Set(1, key, value)
    \/ \E key \in Keys : Delete(1, key)
    \/ AppendSync(1)
    \/ StoreUpdate(1)
    \/ CloseLock(1)
    \/ CloseTruncate(1)
    \/ CloseWAL(1)

SpecClosed == InitClosed /\ [][NextClosed]_vars

(***************************************************************************)
(* What the callers were told, and what recovery should give back.         *)
(***************************************************************************)
\* the map the acknowledged Set / Delete calls describe: each key maps to the
\* value of its last acknowledged Set, or is absent after a Delete
Acked == ApplyAll(EmptyMap, hist, 1)

\* every acknowledged call ran with SyncWrites = true
AllSynced == \A i \in DOMAIN hist : hist[i].sync

\* the effect of the acknowledged call h is what the map m holds for its key
EffectIn(h, m) ==
    IF h.Operation = OpSet
    THEN h.Key \in DOMAIN m /\ m[h.Key] = h.Value
    ELSE h.Key \notin DOMAIN m

\* the records in front of the first record of file that does not decode,
\* those of a known operation, in file order
RECURSIVE ValidRecords(_, _, _)
ValidRecords(file, pos, acc) ==
    LET d == DecodeEntry(file, pos) IN
    IF d.err # NoErr THEN acc
    ELSE ValidRecords(file, d.next,
             IF d.entry.Operation \in {OpSet, OpDelete} THEN Append(acc, d.entry) ELSE acc)

(***************************************************************************)
(* The claims.                                                             *)
(***************************************************************************)
\* C1: crash durability.  With SyncWrites = true for every acknowledged Set /
\* Delete, and no Close in the run, the Open that follows a crash succeeds and
\* gives every key the value of its last acknowledged Set, or no value after
\* an acknowledged Delete, also when an earlier crash left an invalid tail in
\* the WAL.  (Keys of calls that were cut before they returned are left out.)
C1_CrashDurability ==
    (opened.done /\ down = "crash" /\ AllSynced /\ ~everClosed)
        => \A k \in Keys \ unacked :
                (\E i \in DOMAIN hist : hist[i].Key = k)
                    => /\ ~opened.err
                       /\ IF k \in DOMAIN Acked
                          THEN k \in DOMAIN data /\ data[k] = Acked[k]
                          ELSE k \notin DOMAIN data

\* C2: clean-shutdown durability.  In a run without crashes, the Open that
\* follows a successful Close succeeds, Get of every key gives the value of its
\* last acknowledged Set or not-found after a Delete, and Len is the number of
\* keys present.
C2_CleanShutdownDurability ==
    (opened.done /\ down = "close" /\ nCrashes = 0)
        => /\ ~opened.err
           /\ \A k \in Keys :
                Get(k) = IF k \in DOMAIN Acked THEN <<Acked[k], TRUE>> ELSE <<<<>>, FALSE>>
           /\ StoreLen = Cardinality(DOMAIN Acked)

\* C3: no acknowledged write is lost when Set / Delete run concurrently with
\* Close: after the next Open, every key with an acknowledged call holds the
\* effect of one of its acknowledged calls.
C3_NoAckedWriteLost ==
    opened.done
        => /\ ~opened.err
           /\ \A k \in Keys :
                (\E i \in DOMAIN hist : hist[i].Key = k)
                    => \E i \in DOMAIN hist : hist[i].Key = k /\ EffectIn(hist[i], data)

\* C4: the WAL append is the commit point.  A step in which the write or the
\* fsync fails makes Set / Delete return an error, and whenever Set / Delete
\* has returned an error the map is what it was when the call started.
C4_AppendIsCommitPoint ==
    [][/\ (nFaults' > nFaults) => (ret'.err /\ ret'.op \in {"Set", "Delete"})
       /\ (ret'.err /\ ret'.op \in {"Set", "Delete"}) => data' = before']_vars

\* C4, its case: a Set that returned the error of a failed write or fsync, on
\* a Store whose map is not empty, with the map as it was
C4_FailedSetHappens ==
    /\ ret.err /\ ret.op = "Set" /\ nFaults = 1
    /\ data # EmptyMap /\ data = before /\ Len(hist) > 0

\* C5: Close truncates the WAL only after a snapshot of the current map was
\* written: once Close has truncated the WAL of a Store that holds keys,
\* snapshot.dat exists and loads as the map.
C5_TruncateOnlyAfterSnapshot ==
    \A t \in Threads :
        (pc[t] = "closeWAL" /\ data # EmptyMap)
            => /\ snapshot.exists
               /\ ~loadSnapshot(snapshot).err
               /\ loadSnapshot(snapshot).data = data

\* C6: Close is crash-safe at every step.  When the first crash of a run
\* happens inside Close, and every acknowledged call was synced, the next Open
\* succeeds with the map that existed when Close started.
C6_CloseCrashSafe ==
    (opened.done /\ down = "closecrash" /\ nCrashes = 1 /\ AllSynced)
        => (~opened.err /\ data = before)

\* C7: the map of a Store returned by Open is the map loaded from the snapshot
\* file (empty if there is none) with the valid known-operation WAL records
\* applied on top in file order.
C7_RecoveryResult ==
    (opened.done /\ ~opened.err)
        => data = ApplyAll(loadSnapshot(snapshot).data, ValidRecords(wal, 0, <<>>), 1)

\* C8: cross-writer ordering.  With no call in progress on an open Store that
\* was never closed, what a reader sees for every key is what the last WAL
\* record of that key says: the map is the WAL records applied in file order.
C8_CrossWriterOrder ==
    (up /\ fileOpen /\ Idle /\ ~everClosed)
        => data = ApplyAll(EmptyMap, ValidRecords(wal, 0, <<>>), 1)

\* C9: corrupt-tail safety.  After one bit of the final record of a WAL of n
\* valid records was flipped, Open does not fail and its map is the first
\* n - 1 records applied.
C9_CorruptTailSafe ==
    (opened.done /\ corrupt.on)
        => /\ ~opened.err
           /\ data = ApplyAll(EmptyMap,
                         ValidRecords(SubSeq(wal, 1, corrupt.at), 0, <<>>), 1)

\* C10: Replay treats corruption as a clean stop.  At the first record that
\* does not decode (short read, checksum mismatch or bad magic) Replay returns
\* no error, and the callback was called exactly for the valid
\* known-operation records in front of it.
C10_ReplayCleanStop ==
    opened.done
        => (~opened.err /\ opened.entries = ValidRecords(wal, 0, <<>>))

\* C11: Open refuses a corrupt snapshot.  When snapshot.dat exists and is
\* damaged (a flipped bit in the magic, the header or an entry, or a missing
\* end), Open returns an error, closes the WAL and returns no Store.
C11_OpenRefusesCorruptSnapshot ==
    (opened.done /\ damage # NoDamage)
        => (opened.err /\ ~up /\ ~fileOpen)

\* C12: loadSnapshot returns an error and no map whenever the snapshot file has
\* a wrong magic, a header checksum that does not match the header, an entry
\* checksum that does not match the entry, or ends before all its entries.
C12_LoadSnapshotRejects ==
    (loaded.done /\ damage # NoDamage)
        => loaded = [done |-> TRUE, err |-> TRUE, data |-> EmptyMap]

\* C12, its case: loadSnapshot was called on a file of two entries with a
\* flipped bit in the second entry, after the first entry was read
C12_SecondEntryDamaged ==
    /\ loaded.done /\ loaded.err
    /\ damage.kind = "entry" /\ damage.at > 34 /\ Len(snapshot.bytes) = 48

\* the files a completed writeSnapshot can produce
CompleteSnapshots ==
    UNION {{SnapshotFile(SnapshotBytes(m, ts, order)) :
                ts \in 0..MaxOps, order \in RangeOrders(m)} : m \in Maps}

\* C13: snapshot replacement is atomic.  At every step of writeSnapshot, and
\* after an I/O error or a crash at any step, snapshot.dat is absent or the
\* complete previous snapshot, or the complete new one, never a partly written
\* file; after writeSnapshot returned nil, snapshot.dat is the new snapshot and
\* snapshot.dat.tmp does not exist.
C13_SnapshotReplacementAtomic ==
    LET new == SnapshotFile(SnapshotBytes(writer.m, nOps, writer.order)) IN
    /\ writer.pc # "idle" => snapshot = writer.prev
    /\ (ret.op = "writeSnapshot" /\ ret.err) => snapshot = writer.prev
    /\ (ret.op = "writeSnapshot" /\ ~ret.err) => (snapshot = new /\ ~tmp.exists)
    /\ snapshot \in {writer.prev, new}
    /\ snapshot.exists => (snapshot \in CompleteSnapshots /\ ~loadSnapshot(snapshot).err)

\* C13, its case: a second writeSnapshot, of another map, was cut by a crash
\* after it had written an entry, and snapshot.dat is still the first snapshot
C13_CrashWhileReplacing ==
    /\ nCrashes = 1 /\ nSnaps = 2 /\ writer.pc = "idle" /\ writer.i = 2
    /\ snapshot.exists /\ snapshot = writer.prev
    /\ loadSnapshot(snapshot).data # writer.m

\* the place in hist of the last acknowledged call on key k, 0 if there is none
LastAckedOf(k) ==
    LET on == {i \in DOMAIN hist : hist[i].Key = k}
    IN  IF on = {} THEN 0 ELSE CHOOSE i \in on : \A j \in on : j <= i

\* C14: read-your-writes in memory.  With one goroutine on a Store that was
\* opened once, between its calls Get(k) returns (v, true) where v is the value
\* of the last Set of k that returned nil, unless a later Delete of k returned
\* nil; it returns (nil, false) after that Delete and for a key never set.
C14_ReadYourWrites ==
    (up /\ Idle /\ ~everClosed)
        => \A k \in Keys :
              Get(k) = IF LastAckedOf(k) > 0 /\ hist[LastAckedOf(k)].Operation = OpSet
                       THEN <<hist[LastAckedOf(k)].Value, TRUE>>
                       ELSE <<<<>>, FALSE>>

\* C14, its case: a Set of a key returned nil, another call failed, then a
\* Delete of the same key returned nil
C14_SetThenDelete ==
    /\ up /\ Idle /\ ~everClosed /\ nFaults = 1
    /\ Len(hist) = 2 /\ hist[1].Operation = OpSet /\ hist[2].Operation = OpDelete
    /\ hist[1].Key = hist[2].Key

\* C15: reopen idempotence.  When a successful Close began right after a
\* successful Open, with no write in between, the next Open succeeds and gives
\* the map the first Open gave, whatever the first Open recovered it from.
C15_ReopenIdempotent ==
    (opened.done /\ down = "close" /\ closedFrom.on)
        => (~opened.err /\ data = closedFrom.data)

\* what identifies a record to the caller: operation, key and value
Told(e) == <<e.Operation, e.Key, e.Value>>

\* the calls of h whose operation is Set or Delete, in order
KnownCalls(h) == SelectSeq(h, LAMBDA c : c.Operation = OpSet \/ c.Operation = OpDelete)

\* C16: unknown operation codes are skipped, not fatal.  When the WAL holds the
\* records of successful Append calls, some of them with an operation code that
\* is neither Set nor Delete, Replay (and Open) returns no error, the callback
\* gets exactly the Set and Delete records, each of them and in file order, and
\* the map of the Store is these records applied.
C16_UnknownOpsSkipped ==
    opened.done
        => /\ ~opened.err
           /\ Len(opened.entries) = Len(KnownCalls(hist))
           /\ \A i \in DOMAIN opened.entries :
                 Told(opened.entries[i]) = Told(KnownCalls(hist)[i])
           /\ up => data = ApplyAll(EmptyMap, KnownCalls(hist), 1)

\* C16, its case: Open on a WAL of a Set record, a record of an unknown
\* operation on the same key, and a Set record of another key
C16_UnknownBetweenValid ==
    /\ opened.done /\ up /\ Len(hist) = 3
    /\ hist[1].Operation = OpSet /\ hist[3].Operation = OpSet
    /\ hist[2].Operation \in UnknownOps
    /\ hist[2].Key = hist[1].Key /\ hist[3].Key # hist[1].Key
    /\ Len(opened.entries) = 2

\* the bytes of the records of the calls h[i], h[i+1], ..., the k-th of them
\* appended at clock reading k - 1
RECURSIVE EncodeAll(_, _)
EncodeAll(h, i) ==
    IF i > Len(h) THEN <<>>
    ELSE Encode([Operation |-> h[i].Operation, Timestamp |-> i - 1,
                 Key |-> h[i].Key, Value |-> h[i].Value]) \o EncodeAll(h, i + 1)

\* C17: concurrent writers on one key.  While goroutines call Set concurrently
\* on a Store that is not being closed, no call returns an error, and once all
\* have returned, Get of a key that only Set calls were made on returns
\* (v, true) with v not empty and v the value one of these calls passed.
C17_ConcurrentSetsOneKey ==
    (up /\ ~everClosed)
        => /\ ~ret.err
           /\ Idle =>
                \A k \in Keys :
                    LET on == {i \in DOMAIN hist : hist[i].Key = k} IN
                    (on # {} /\ \A i \in on : hist[i].Operation = OpSet)
                        => /\ Get(k)[2]
                           /\ Get(k)[1] # <<>>
                           /\ \E i \in on : Get(k)[1] = hist[i].Value

\* C17, its case: two Set calls of different values on one key overlapped, the
\* one whose record was written first returned last, and both have returned
C17_OverlappingSets ==
    /\ up /\ Idle /\ ~everClosed /\ Len(hist) = 2
    /\ hist[1].Operation = OpSet /\ hist[2].Operation = OpSet
    /\ hist[1].Key = hist[2].Key /\ hist[1].Value # hist[2].Value
    /\ hist[1].Value = ValidRecords(wal, 0, <<>>)[2].Value
    /\ Get(hist[1].Key) = <<hist[2].Value, TRUE>>

\* C18: concurrent WAL appends are serialized.  When goroutines have made
\* successful Append calls concurrently and none is in progress, the WAL is
\* exactly the complete records of these calls one after the other, none
\* interleaved with another, and Replay delivers as many entries as there
\* were calls.
C18_AppendsSerialized ==
    (walMu = 0 /\ Idle)
        => /\ wal = EncodeAll(hist, 1)
           /\ opened.done => (~opened.err /\ Len(opened.entries) = Len(hist))

\* C18, its case: Replay after three appends made by two goroutines
C18_TwoWritersReplayed ==
    /\ opened.done /\ Len(hist) = 3
    /\ {hist[i].by : i \in DOMAIN hist} = Threads

\* C19: Replay is complete and ordered.  For a WAL produced by n successful
\* sequential Append calls of Set and Delete records, closed or not before the
\* file is opened again, Replay returns no error and calls the callback
\* exactly n times, the i-th time with the key, operation and value of the
\* i-th appended record.
C19_ReplayCompleteOrdered ==
    (opened.done /\ KnownCalls(hist) = hist)
        => /\ ~opened.err
           /\ Len(opened.entries) = Len(hist)
           /\ \A i \in DOMAIN hist :
                 /\ opened.entries[i].Key = hist[i].Key
                 /\ opened.entries[i].Operation = hist[i].Operation
                 /\ opened.entries[i].Value = hist[i].Value

\* C19, its case: Replay through a new handle, the first one never closed,
\* after three appends that include a Delete
C19_ReplayAfterNoClose ==
    /\ opened.done /\ ~up /\ down = "dropped"
    /\ Len(hist) = 3 /\ KnownCalls(hist) = hist
    /\ hist[2].Operation = OpDelete /\ hist[1].Key # hist[3].Key

\* C20: record round-trip.  For records of operation Set or Delete, with an
\* empty or non-empty key, an empty (nil) or non-empty value, and a small or
\* large timestamp, decoding the bytes Encode produced succeeds and gives the
\* same operation, timestamp, key and value; from a buffer that several records
\* were encoded into, they are decoded one by one, in order, to the last byte.
C20_RecordRoundTrip ==
    /\ codec.err = NoErr
    /\ Len(codec.read) <= Len(codec.written)
    /\ \A i \in DOMAIN codec.read :
          /\ codec.read[i].Operation = codec.written[i].Operation
          /\ codec.read[i].Timestamp = codec.written[i].Timestamp
          /\ codec.read[i].Key = codec.written[i].Key
          /\ codec.read[i].Value = codec.written[i].Value
    /\ (codec.pos = Len(codec.buf)) <=> (Len(codec.read) = Len(codec.written))

\* C20, its case: a Set record with the empty key and a Delete record with
\* the largest timestamp, both decoded from one buffer
C20_TwoRecordsDecoded ==
    /\ Len(codec.read) = 2
    /\ codec.written[1].Operation = OpSet /\ codec.written[1].Key = <<>>
    /\ codec.written[1].Value # <<>>
    /\ codec.written[2].Operation = OpDelete /\ codec.written[2].Timestamp = 2147483647

\* C21: snapshot round-trip.  loadSnapshot after a writeSnapshot(m) that
\* returned nil returns no error and a map with exactly the keys of m and
\* their values, for the empty map and for maps with empty values too, and
\* whatever snapshot file existed before.
C21_SnapshotRoundTrip ==
    (loaded.done /\ ret = [op |-> "writeSnapshot", err |-> FALSE])
        => /\ ~loaded.err
           /\ DOMAIN loaded.data = DOMAIN writer.m
           /\ \A k \in DOMAIN writer.m : loaded.data[k] = writer.m[k]

\* C21, its case: a snapshot of two keys was replaced by a snapshot of one
\* key with an empty value, and loaded
C21_OverwrittenAndLoaded ==
    /\ loaded.done /\ ret = [op |-> "writeSnapshot", err |-> FALSE]
    /\ nSnaps = 2 /\ writer.prev.exists /\ Len(writer.prev.bytes) = 48
    /\ Cardinality(DOMAIN writer.m) = 1
    /\ \E k \in DOMAIN writer.m : writer.m[k] = <<>>

\* C22: a missing snapshot file is not an error.  When snapshot.dat does not
\* exist in the data directory, loadSnapshot returns an empty map and nil.
C22_MissingSnapshotLoadsEmpty ==
    (loaded.done /\ ~snapshot.exists)
        => (~loaded.err /\ loaded.data = EmptyMap)

\* C22, its case: loadSnapshot was called after a writeSnapshot whose rename
\* failed: there is a snapshot.dat.tmp and no snapshot.dat
C22_LoadedWithOnlyTempFile ==
    /\ loaded.done /\ ~snapshot.exists /\ tmp.exists
    /\ ret = [op |-> "writeSnapshot", err |-> TRUE]

\* C23: WAL truncate.  After Truncate returned nil on an open WAL holding any
\* number of records, the file length is 0; a Replay then delivers no entry;
\* an Append made after it returns nil, and a later Replay delivers exactly
\* the Set / Delete records appended since Truncate.
C23_TruncateEmptiesWAL ==
    /\ ret = [op |-> "Truncate", err |-> FALSE] => Len(wal) = 0
    /\ (cut.on /\ ret.op = "Append") => ~ret.err
    /\ (cut.on /\ opened.done)
          => /\ ~opened.err
             /\ LET since == KnownCalls(SubSeq(hist, cut.at + 1, Len(hist))) IN
                /\ Len(opened.entries) = Len(since)
                /\ \A i \in DOMAIN since : Told(opened.entries[i]) = Told(since[i])

\* C23, its case: two records were appended, the WAL was truncated, one Set
\* record was appended, and Replay delivered one entry
C23_AppendAfterTruncateReplayed ==
    /\ opened.done /\ cut.on /\ cut.at = 2 /\ Len(hist) = 3
    /\ hist[3].Operation = OpSet /\ Len(opened.entries) = 1

\* C24: operations on a closed WAL fail deterministically.  While the WAL file
\* is closed and stays closed, every call that returns (Append, Replay,
\* Truncate, Close on the WAL; Set, Delete, Close on a Store whose WAL is
\* closed) returns an error, and the content of the file does not change.
C24_ClosedWALFails ==
    [][(~fileOpen /\ ~fileOpen')
          => /\ wal' = wal
             /\ (ret' # NoRet /\ (ret' # ret \/ nOps' # nOps)) => ret'.err]_vars

\* C24, its case: Truncate was called on a WAL that holds records after
\* WAL.Close returned; it returned an error and the records are still there
C24_TruncateOnClosedWAL ==
    /\ WALClosed /\ ret = [op |-> "Truncate", err |-> TRUE]
    /\ Len(hist) = 2 /\ wal = EncodeAll(hist, 1)

\* C25: Delete of an absent key.  With one goroutine and no I/O error, a
\* Delete(k) that starts while k is not in the map appends exactly the one
\* encoded Delete record of k to the WAL and nothing more, returns nil, and
\* leaves the map as it was; when the WAL held complete records only, Replay of
\* the WAL with this record returns no error, hands the record to the callback
\* last, and the map it builds is the one built without the record, which is
\* the map of the Store.
C25_DeleteAbsentKey ==
    [][LET e == IF pc[1] = "idle" THEN call'[1] ELSE call[1] IN
       (/\ e # NoEntry /\ e.Operation = OpDelete /\ e.Key \notin DOMAIN data
        /\ nCrashes' = nCrashes)
          => /\ data' = data
             /\ pc[1] = "idle" => wal' = wal \o Encode(e)
             /\ pc[1] = "sync" => (wal' = wal /\ pc'[1] = "store")
             /\ pc[1] = "store"
                   => /\ wal' = wal
                      /\ ret' = [op |-> "Delete", err |-> FALSE]
                      /\ LastRecordFrom(wal, 0) >= 0
                            => LET r == Replay(wal)
                                   n == Len(r.entries)
                               IN  /\ ~r.err /\ n > 0
                                   /\ Told(r.entries[n]) = <<OpDelete, e.Key, <<>>>>
                                   /\ ApplyAll(EmptyMap, r.entries, 1)
                                        = ApplyAll(EmptyMap, SubSeq(r.entries, 1, n - 1), 1)
                                   /\ ApplyAll(EmptyMap, r.entries, 1) = data']_vars

\* C25, its case: Set(a), then Delete(b) with b absent, both returned nil; the
\* process ended without Close and the next Open replayed both records
C25_AbsentDeleteReplayed ==
    /\ opened.done /\ ~opened.err /\ nCrashes = 1
    /\ Len(hist) = 2 /\ hist[1].Operation = OpSet /\ hist[2].Operation = OpDelete
    /\ hist[1].Key # hist[2].Key
    /\ Len(opened.entries) = 2 /\ Told(opened.entries[2]) = <<OpDelete, hist[2].Key, <<>>>>
    /\ DOMAIN data = {hist[1].Key}

\* C26: every access to the map after Open is made under Store.mu.  No
\* goroutine is inside Get, Len or Keys, reading the map, while another is
\* inside the map update of Set / Delete.
C26_MapAccessUnderLock ==
    \A t \in Threads, u \in Threads :
        ~(pc[t] = "update" /\ pc[u] \in {"Get", "Len", "Keys"})

\* the entries of the records that decode at some offset of the file
RecordsIn(file) ==
    {DecodeEntry(file, pos).entry :
        pos \in {p \in 0..Len(file) : DecodeEntry(file, p).err = NoErr}}

\* C27: invariant I1, WAL before memory.  In every state of an open Store,
\* every key of the map has a Set record in the current WAL, or an entry in
\* the snapshot file with no Delete record of the key in the current WAL; and
\* every step that changes the map of an open Store applies an entry whose
\* record is in the WAL already.
C27_WALBeforeMemory ==
    /\ [](( up /\ fileOpen)
            => \A k \in DOMAIN data :
                 \/ \E e \in RecordsIn(wal) : e.Operation = OpSet /\ e.Key = k
                 \/ /\ ~loadSnapshot(snapshot).err
                    /\ k \in DOMAIN loadSnapshot(snapshot).data
                    /\ ~\E e \in RecordsIn(wal) : e.Operation = OpDelete /\ e.Key = k)
    /\ [][(up /\ up' /\ fileOpen /\ fileOpen' /\ data' # data)
            => \E t \in Threads :
                 /\ call[t] \in RecordsIn(wal)
                 /\ data' = ApplyEntry(data, call[t])]_vars

\* C28: invariant I2.  Whenever no call is in progress on an open Store, no
\* key of the map is shadowed: the last WAL record of a key that is in the map
\* is not a Delete, also after a Set and a Delete of the key that ran
\* concurrently have both returned.
C28_NoShadowedKey ==
    (up /\ fileOpen /\ Idle)
        => LET recs == ValidRecords(wal, 0, <<>>) IN
           \A k \in DOMAIN data :
               \A i \in DOMAIN recs :
                   (recs[i].Key = k /\ recs[i].Operation = OpDelete)
                       => \E j \in DOMAIN recs :
                              j > i /\ recs[j].Key = k /\ recs[j].Operation = OpSet

\* C29: invariant W1.  Whenever no call is in progress, every record of the
\* WAL that decodes and that a replay would apply is the record of a Set /
\* Delete call that returned nil: there are no more such records than such
\* calls, and each has the operation, key and value of one of them.  A call
\* whose Append returned an error, of the write or of the fsync, leaves none.
C29_RecordsAreAcked ==
    Idle
        => LET recs == ValidRecords(wal, 0, <<>>) IN
           /\ Len(recs) <= Len(hist)
           /\ \A i \in DOMAIN recs :
                  \E j \in DOMAIN hist : Told(recs[i]) = Told(hist[j])

\* the offset at which reading the records of file from pos stops: the end of
\* the file, or the start of the first record that does not decode
RECURSIVE ValidEnd(_, _)
ValidEnd(file, pos) ==
    LET d == DecodeEntry(file, pos) IN
    IF d.err # NoErr THEN pos ELSE ValidEnd(file, d.next)

\* C30: invariant W2.  In every state of the WAL file, through appends, crashes
\* that leave a partial final record, and sessions that reopen the file and
\* append, the only invalid record is the last one: behind the first record
\* that does not decode there is no complete valid record.
C30_OnlyTailInvalid ==
    \A pos \in (ValidEnd(wal, 0) + 1)..Len(wal) : DecodeEntry(wal, pos).err # NoErr

C32_CleanupOnEveryFailure ==
    [][(/\ writer.pc # "idle" /\ writer'.pc = "idle"
        /\ ret' = [op |-> "writeSnapshot", err |-> TRUE])
          => ~tmp'.exists]_vars

\* C33: timestamps are audit-only.  The map Open builds from a WAL of records
\* appended with arbitrary timestamps, decreasing ones included, is decided by
\* the sequence of (operation, key, value) alone: every key has the value of
\* its last Set record in file order, or is absent when its last record is a
\* Delete.  A snapshot file loads as the map it encodes, and the encoding of
\* that map with any other timestamp loads as the same map.
C33_TimestampsAuditOnly ==
    /\ (opened.done /\ up)
          => /\ ~opened.err
             /\ \A k \in Keys :
                  LET i == LastAckedOf(k) IN
                  IF i = 0 \/ hist[i].Operation = OpDelete
                  THEN k \notin DOMAIN data
                  ELSE k \in DOMAIN data /\ data[k] = hist[i].Value
    /\ (loaded.done /\ snapshot.exists)
          => /\ ~loaded.err
             /\ \E ts \in 0..MaxOps, order \in RangeOrders(loaded.data) :
                    snapshot.bytes = SnapshotBytes(loaded.data, ts, order)
             /\ \A ts \in Timestamps, order \in RangeOrders(loaded.data) :
                    loadSnapshot(SnapshotFile(SnapshotBytes(loaded.data, ts, order)))
                        = [err |-> FALSE, data |-> loaded.data]

\* C33, its case: Open replayed a Set of a key with the largest timestamp
\* followed by a Set of the key with another value and timestamp 0
C33_OlderStampWins ==
    /\ opened.done /\ up /\ Len(opened.entries) = 2
    /\ opened.entries[1].Key = opened.entries[2].Key
    /\ opened.entries[1].Operation = OpSet /\ opened.entries[2].Operation = OpSet
    /\ opened.entries[1].Value # opened.entries[2].Value
    /\ opened.entries[1].Timestamp > opened.entries[2].Timestamp

\* C34: writes made after recovering from an invalid WAL tail stay
\* recoverable.  With SyncWrites = true and no Close, whatever invalid bytes
\* earlier crashes left in the file, the Replay of Open delivers the record of
\* every Set / Delete call that returned nil, those of the sessions that began
\* behind an invalid tail included.
C34_WritesBehindTailRecovered ==
    (opened.done /\ hist # <<>>)
        => /\ ~opened.err
           /\ Len(opened.entries) >= Len(hist)
           /\ \A i \in DOMAIN hist :
                  \E j \in DOMAIN opened.entries : Told(opened.entries[j]) = Told(hist[i])

\* C35: memory and disk agree when quiescent.  In every state of an open Store
\* in which no call is in progress and every call so far returned nil, a fresh
\* Open on the files as they are would succeed and build the map the Store
\* holds.
C35_MemoryMatchesDisk ==
    (up /\ fileOpen /\ Idle /\ ~ret.err)
        => LET r == Replay(wal) IN
           /\ ~r.err
           /\ \A k \in Keys :
                  Get(k) = LET m == ApplyAll(EmptyMap, r.entries, 1)
                           IN  IF k \in DOMAIN m THEN <<m[k], TRUE>> ELSE <<<<>>, FALSE>>

C37_RecoveryReadOnly ==
    [][/\ (~fileOpen /\ opened'.done)
            => /\ wal' = wal /\ snapshot' = snapshot /\ tmp' = tmp
               /\ ~opened'.err
                     => data' = ApplyAll(EmptyMap, ValidRecords(wal, 0, <<>>), 1)
       /\ (opened.done /\ ~opened.err /\ nCrashes' > nCrashes)
            => wal' = wal /\ snapshot' = snapshot]_vars

\* C37, its case: the second Open of crash, Open, crash, Open on a file that
\* ends with an invalid tail behind an acknowledged record
C37_OpenedTwiceOnTornFile ==
    /\ opened.done /\ ~opened.err /\ nCrashes = 2 /\ nOps = 2 /\ Len(hist) = 1
    /\ ValidEnd(wal, 0) > 0 /\ ValidEnd(wal, 0) < Len(wal)
    /\ data # EmptyMap

\* C38: frame of a write.  Over a Set(k, v) or Delete(k) that returns nil,
\* the step that writes appends the one encoded record of the call to the WAL
\* and no other step of the call changes the WAL; the map changes in the last
\* step only and there only at k; the snapshot file does not change.
C38_WriteFrame ==
    [][\A t \in Threads :
         /\ (pc[t] = "idle" /\ pc'[t] = "sync")
               => /\ wal' = wal \o Encode(call'[t])
                  /\ data' = data /\ snapshot' = snapshot
         /\ (pc[t] = "sync" /\ pc'[t] = "store")
               => wal' = wal /\ data' = data /\ snapshot' = snapshot
         /\ (pc[t] = "store" /\ pc'[t] = "idle")
               => /\ wal' = wal /\ snapshot' = snapshot
                  /\ ret' = [op |-> OpName(call[t]), err |-> FALSE]
                  /\ \A k \in Keys \ {call[t].Key} :
                        /\ k \in DOMAIN data' <=> k \in DOMAIN data
                        /\ k \in DOMAIN data => data'[k] = data[k]]_vars

\* C38, its case: a Set of one key returned nil on a Store that holds the
\* other key, with a snapshot file in the data directory
C38_SetBesideOtherKey ==
    /\ ret = [op |-> "Set", err |-> FALSE] /\ snapshot.exists
    /\ Len(hist) = 2 /\ hist[1].Operation = OpSet /\ hist[1].Key # hist[2].Key
    /\ DOMAIN data = Keys

\* C39: stored values are isolated from caller buffers.  The map of an open
\* Store changes only in the step in which a Set or Delete returns nil, also
\* when the caller writes into a slice it passed to Set or got from Get, and
\* between calls the map is what the records of the WAL say.
C39_ValuesIsolated ==
    /\ [][(up /\ up' /\ data' # data)
            => \E t \in Threads :
                 /\ pc[t] \in {"store", "update"} /\ pc'[t] = "idle"
                 /\ ret' \in {[op |-> "Set", err |-> FALSE], [op |-> "Delete", err |-> FALSE]}]_vars
    /\ []((up /\ fileOpen /\ Idle)
            => data = ApplyAll(EmptyMap, ValidRecords(wal, 0, <<>>), 1))

\* C40: Replay terminates on every finite WAL content.  Every iteration of the
\* loop either ends it or moves the offset forward over exactly one whole
\* record, handing at most that record to the callback; a Replay that began
\* returns; it has called the callback at most once per record that decodes;
\* and on an empty file it returns no error after no callback.
C40_ReplayTerminates ==
    /\ [][(pc[1] = "replay" /\ pc'[1] = "replay")
            => /\ codec'.pos > codec.pos /\ codec'.pos <= Len(codec.buf)
               /\ LET rec == SubSeq(codec.buf, codec.pos + 1, codec'.pos) IN
                  /\ DecodeEntry(rec, 0).err = NoErr
                  /\ DecodeEntry(rec, 0).next = Len(rec)
                  /\ codec'.read \in {codec.read, Append(codec.read, DecodeEntry(rec, 0).entry)}]_vars
    /\ (pc[1] = "replay") ~> (pc[1] = "idle" /\ opened.done)
    /\ []((opened.done /\ pc[1] = "idle")
            => /\ Len(opened.entries) <= Cardinality({p \in 0..Len(wal) :
                                                       DecodeEntry(wal, p).err = NoErr})
               /\ wal = <<>> => (~opened.err /\ opened.entries = <<>>))

\* C40, its case: Replay returned after its loop handed one Set record to the
\* callback and ended at the torn bytes a failed write left behind it
C40_LoopEndedAtTornBytes ==
    /\ opened.done /\ pc[1] = "idle" /\ ~opened.err
    /\ codec.err = ErrRead /\ codec.pos > 0 /\ codec.pos < Len(codec.buf)
    /\ Len(opened.entries) = 1 /\ opened.entries[1].Operation = OpSet
    /\ Len(hist) = 1 /\ nFaults = 1

=============================================================================
